---- MODULE Spec2Model ----
(***************************************************************************)
(* A model of dictdb's table engine (src/src/dictdb/core/table.py): the    *)
(* record map, schema validation, the hash and sorted indexes, the CRUD     *)
(* operations, and the reader/writer lock around them.                      *)
(***************************************************************************)
EXTENDS Integers, Sequences, FiniteSets, TLC

\* ---------------------------------------------------------------- bounds
\* Largest primary key the model inserts or assigns.
MaxKey == 2
\* Number of threads that use one RWLock.
NumThreads == 3
\* Number of threads that call the methods of one table.
NumCallers == 2
\* Largest number of entries the model lets a sorted index hold (stale
\* entries of re-inserted keys accumulate in its list without limit).
MaxEntries == 2

\* ---------------------------------------------------------------- values
\* Python values are tagged with their dynamic type (type(v).__name__).
None == [type |-> "NoneType", val |-> 0]
IntV(n) == [type |-> "int", val |-> n]

KeyValues == {IntV(n) : n \in 1..MaxKey}
DataValues == {None, IntV(1), IntV(2)}
Values == KeyValues \cup DataValues

\* Table("t", primary_key="id", ...)
PrimaryKey == "id"
FieldNames == {"id", "a"}

\* A record is a mapping from some field names to values.
EmptyRecord == [f \in {} |-> None]
RecordWith(base, extra) ==
    [f \in (DOMAIN base) \cup (DOMAIN extra) |->
        IF f \in DOMAIN extra THEN extra[f] ELSE base[f]]

\* dict.get(field): a missing field reads as None.
Get(record, f) == IF f \in DOMAIN record THEN record[f] ELSE None

\* ---------------------------------------------------------------- state
VARIABLES
    records,   \* Table.records: the ordered mapping pk -> record, as a
               \* sequence of [key, rec] entries in insertion order
    schema,    \* Table.schema: [defined, types]
    indexes,   \* Table.indexes: field name -> index object
    lastOp,    \* the operation of the last call
    outcome,   \* how the last call ended: "ok", the exception it raised, or
               \* "logged" when it caught a failure and only logged it
    lock,      \* Table._lock: the RWLock's counters
    pc,        \* per thread: where it stands in its current call
    ahead,     \* per thread: the writers that were waiting when it asked
               \* for the read lock and have not yet released the write lock
    queued,    \* per thread: it asked for the read lock behind a waiting writer
    stack,     \* per thread: the Table methods it is inside, outermost first
    uloc,      \* per thread: the locals of its running update
    observed   \* per thread: what its last select/all/copy saw

\* The state of the parts around the table: a query's ordering step.
VARIABLES
    rows,      \* the record list handed to order_records
    query,     \* the arguments of the call: [order_by, limit, offset]
    returned   \* what the call returned: [rows, exc]

orderVars == <<rows, query, returned>>

\* Records as objects: the table and its caller hold references to dicts.
VARIABLES
    objects,   \* the dict objects alive: reference -> contents (or Free)
    table,     \* Table.records by reference: a sequence of [key, ref]
    handed,    \* the references the caller passed to insert and still holds
    got,       \* the references in the list the caller's last read returned
    touched    \* the reference the caller last wrote through (0: none)

ownerVars == <<objects, table, handed, got, touched>>

\* The BackupManager of a database and the threads that use it.
VARIABLES
    clock,     \* time.time()
    manager,   \* the BackupManager's fields
    bthreads,  \* per thread: where it stands in its BackupManager call
    history    \* the backup_now calls completed so far, in order

backupVars == <<clock, manager, bthreads, history>>

\* A second table that is given the same calls as the first, with a sorted
\* index where the first has a hash index.
VARIABLES
    twin       \* the second table: [records, indexes, outcome]

twinVars == <<twin>>
auxVars == <<rows, query, returned, objects, table, handed, got, touched,
             clock, manager, bthreads, history, twin>>

\* The parts around the table at rest.
OrderIdle ==
    /\ rows = <<>>
    /\ query = [fn |-> "none", order_by |-> <<>>, limit |-> None, offset |-> 0]
    /\ returned = [rows |-> <<>>, exc |-> "none"]
OwnerIdle ==
    /\ objects = <<>>
    /\ table = <<>>
    /\ handed = {}
    /\ got = <<>>
    /\ touched = 0
BackupIdle ==
    /\ clock = 0
    /\ manager = <<>>
    /\ bthreads = <<>>
    /\ history = <<>>
TwinIdle == twin = <<>>
AuxIdle == OrderIdle /\ OwnerIdle /\ BackupIdle /\ TwinIdle

tableVars == <<records, schema, indexes>>
callVars == <<lastOp, outcome>>
lockVars == <<lock, pc, ahead, queued>>
callerVars == <<stack, uloc, observed>>
coreVars == <<records, schema, indexes, lastOp, outcome, lock, pc, ahead, queued,
             stack, uloc, observed>>
vars == <<records, schema, indexes, lastOp, outcome, lock, pc, ahead, queued,
          stack, uloc, observed, auxVars>>

\* ---------------------------------------------------------------- record map
Keys(recs) == {recs[i].key : i \in 1..Len(recs)}
PosOf(recs, k) == CHOOSE i \in 1..Len(recs) : recs[i].key = k
RecAt(recs, k) == recs[PosOf(recs, k)].rec
SetRec(recs, k, r) ==
    [i \in 1..Len(recs) |-> IF recs[i].key = k THEN [key |-> k, rec |-> r] ELSE recs[i]]
RECURSIVE DelKey(_, _)
DelKey(recs, k) ==
    IF recs = <<>> THEN <<>>
    ELSE IF Head(recs).key = k THEN Tail(recs)
    ELSE <<Head(recs)>> \o DelKey(Tail(recs), k)
MaxKeyOf(recs) ==
    CHOOSE k \in Keys(recs) : \A j \in Keys(recs) : j.val <= k.val

\* ---------------------------------------------------------------- schema
NoSchema == [defined |-> FALSE, types |-> [f \in {} |-> "int"]]
SchemaArgs ==
    {NoSchema} \cup
    {[defined |-> TRUE, types |-> [f \in S |-> "int"]] : S \in SUBSET FieldNames}

\* Table.__init__: the primary key is added to a schema that omits it.
TableSchema(arg) ==
    IF arg.defined /\ PrimaryKey \notin DOMAIN arg.types
    THEN [defined |-> TRUE,
          types |-> [f \in (DOMAIN arg.types) \cup {PrimaryKey} |->
                        IF f = PrimaryKey THEN "int" ELSE arg.types[f]]]
    ELSE arg

\* validate_record without its second loop (fields the schema lacks).
validate_record_no_unknown(sch, record) ==
    IF ~sch.defined THEN "ok"
    ELSE IF \E f \in DOMAIN sch.types :
                f \notin DOMAIN record \/ record[f].type # sch.types[f]
         THEN "SchemaValidationError"
    ELSE "ok"

\* Table.validate_record: "ok", or the exception it raises.
validate_record(sch, record) ==
    IF ~sch.defined THEN "ok"
    ELSE IF \E f \in DOMAIN sch.types :
                f \notin DOMAIN record \/ record[f].type # sch.types[f]
         THEN "SchemaValidationError"
    ELSE IF \E f \in DOMAIN record : f \notin DOMAIN sch.types
         THEN "SchemaValidationError"
    ELSE "ok"

\* ---------------------------------------------------------------- conditions
\* A str value; val is its rank in the order of strings.
StrV(n) == [type |-> "str", val |-> n]

\* Python's a < b, a <= b, a > b, a >= b on two values: "true", "false", or
\* "err" when the comparison raises TypeError (None on either side, or an
\* int against a str).
Compare(op, a, b) ==
    IF a.type = "NoneType" \/ a.type # b.type THEN "err"
    ELSE IF CASE op = "lt" -> a.val < b.val
              [] op = "lte" -> a.val <= b.val
              [] op = "gt" -> a.val > b.val
              [] op = "gte" -> a.val >= b.val
    THEN "true" ELSE "false"

\* low <= val <= high evaluated without the try block: the second
\* comparison is made only when the first holds.
ChainedLte(low, val, high) ==
    IF Compare("lte", low, val) # "true" THEN Compare("lte", low, val)
    ELSE Compare("lte", val, high)

\* A _BetweenCondition.__call__ that lets the TypeError of the comparison
\* through.
BetweenConditionUncaught(field, low, high, record) ==
    IF Get(record, field) = None THEN [result |-> FALSE, exc |-> "ok"]
    ELSE IF ChainedLte(low, Get(record, field), high) = "err"
    THEN [result |-> FALSE, exc |-> "TypeError"]
    ELSE [result |-> ChainedLte(low, Get(record, field), high) = "true", exc |-> "ok"]
\* _BetweenCondition.__call__: [result, exc]
BetweenCondition(field, low, high, record) ==
    IF Get(record, field) = None THEN [result |-> FALSE, exc |-> "ok"]
    ELSE IF ChainedLte(low, Get(record, field), high) = "err"
    THEN [result |-> FALSE, exc |-> "ok"]
    ELSE [result |-> ChainedLte(low, Get(record, field), high) = "true", exc |-> "ok"]

\* The bounds given to between: None, ints, a str.
BoundValues == DataValues \cup {StrV(1)}

\* where=None, Condition(table.f == v), Condition(table.f < v)
NoWhere == [op |-> "none", field |-> PrimaryKey, value |-> None]
Wheres ==
    {NoWhere}
    \cup {[op |-> "eq", field |-> "a", value |-> v] : v \in {None, IntV(1)}}
    \cup {[op |-> "eq", field |-> PrimaryKey, value |-> v] : v \in {IntV(1)}}
    \cup {[op |-> "lt", field |-> "a", value |-> v] : v \in {IntV(2)}}

\* _FieldCondition.__call__ with operator.lt raises TypeError when either
\* operand is None.
WhereRaises(where, record) ==
    /\ where.op = "lt"
    /\ (Get(record, where.field).type # "int" \/ where.value.type # "int")
WhereHolds(where, record) ==
    CASE where.op = "none" -> TRUE
      [] where.op = "eq" -> Get(record, where.field) = where.value
      [] where.op = "lt" ->
            /\ ~WhereRaises(where, record)
            /\ Get(record, where.field).val < where.value.val

\* ---------------------------------------------------------------- PredicateExpr
\* What calling a predicate on a record gives: its value, "ok" or the
\* exception it raised, and the conditions on fields that were evaluated, in
\* order.
Evaluation(val, exc, evaluated) == [val |-> val, exc |-> exc, evaluated |-> evaluated]

\* PredicateExpr.__call__ on a condition on one field.
PredicateCall(where, record) ==
    IF WhereRaises(where, record) THEN Evaluation(FALSE, "TypeError", <<where>>)
    ELSE Evaluation(WhereHolds(where, record), "ok", <<where>>)

\* An __and__ that calls both operands before it combines them.
PredicateAndEager(x, y) ==
    IF x.exc # "ok" THEN x
    ELSE Evaluation(y.exc = "ok" /\ x.val /\ y.val, y.exc, x.evaluated \o y.evaluated)
\* PredicateExpr.__and__: lambda rec: self(rec) and other(rec), given what
\* self(rec) gives and what other(rec) would give.
PredicateAnd(x, y) ==
    IF x.exc # "ok" \/ ~x.val THEN x
    ELSE Evaluation(y.val, y.exc, x.evaluated \o y.evaluated)
\* PredicateExpr.__or__: lambda rec: self(rec) or other(rec)
PredicateOr(x, y) ==
    IF x.exc # "ok" \/ x.val THEN x
    ELSE Evaluation(y.val, y.exc, x.evaluated \o y.evaluated)
\* PredicateExpr.__invert__: lambda rec: not self(rec)
PredicateInvert(x) ==
    IF x.exc # "ok" THEN x ELSE Evaluation(~x.val, "ok", x.evaluated)

\* ---------------------------------------------------------------- HashIndex
HashIndexNew == [kind |-> "hash", index |-> [v \in {} |-> {}]]
\* Table.indexes of a table without indexes.
NoIndexes == [f \in {} |-> HashIndexNew]
HashInsert(idx, pk, value) ==
    [idx EXCEPT !.index =
        [v \in (DOMAIN idx.index) \cup {value} |->
            IF v = value
            THEN (IF v \in DOMAIN idx.index THEN idx.index[v] ELSE {}) \cup {pk}
            ELSE idx.index[v]]]
\* A delete that discards the primary key and keeps the value in the
\* mapping.
HashDeleteKeepsValue(idx, pk, value) ==
    IF value \in DOMAIN idx.index
    THEN [idx EXCEPT !.index[value] = idx.index[value] \ {pk}]
    ELSE idx
HashDelete(idx, pk, value) ==
    IF value \in DOMAIN idx.index
    THEN IF idx.index[value] \ {pk} = {}
         THEN [idx EXCEPT !.index = [v \in (DOMAIN idx.index) \ {value} |-> idx.index[v]]]
         ELSE [idx EXCEPT !.index[value] = idx.index[value] \ {pk}]
    ELSE idx
HashUpdate(idx, pk, old_value, new_value) ==
    HashInsert(HashDelete(idx, pk, old_value), pk, new_value)
HashSearch(idx, value) ==
    IF value \in DOMAIN idx.index THEN idx.index[value] ELSE {}

\* ---------------------------------------------------------------- SortedIndex
\* Python's == and < on two values: "eq", "lt", "gt", or "err" when < raises
\* TypeError (None against anything but itself).
ValCmp(a, b) ==
    IF a = b THEN "eq"
    ELSE IF a.type # "int" \/ b.type # "int" THEN "err"
    ELSE IF a.val < b.val THEN "lt" ELSE "gt"

\* Python's ordering of two tuples: the first differing position decides, a
\* proper prefix is smaller.
RECURSIVE TupleCmp(_, _)
TupleCmp(x, y) ==
    IF x = <<>> THEN (IF y = <<>> THEN "eq" ELSE "lt")
    ELSE IF y = <<>> THEN "gt"
    ELSE IF ValCmp(Head(x), Head(y)) # "eq" THEN ValCmp(Head(x), Head(y))
    ELSE TupleCmp(Tail(x), Tail(y))

\* bisect.bisect_left(a, x, lo, hi) and bisect.bisect_right: the 0-based
\* position, or -1 when a comparison raises TypeError.
RECURSIVE bisect_left(_, _, _, _)
bisect_left(a, x, lo, hi) ==
    IF lo >= hi THEN lo
    ELSE LET mid == (lo + hi) \div 2
             c == TupleCmp(a[mid + 1], x)
         IN  IF c = "err" THEN -1
             ELSE IF c = "lt" THEN bisect_left(a, x, mid + 1, hi)
             ELSE bisect_left(a, x, lo, mid)
RECURSIVE bisect_right(_, _, _, _)
bisect_right(a, x, lo, hi) ==
    IF lo >= hi THEN lo
    ELSE LET mid == (lo + hi) \div 2
             c == TupleCmp(x, a[mid + 1])
         IN  IF c = "err" THEN -1
             ELSE IF c = "lt" THEN bisect_right(a, x, lo, mid)
             ELSE bisect_right(a, x, mid + 1, hi)

InsertAt(a, pos, x) == SubSeq(a, 1, pos) \o <<x>> \o SubSeq(a, pos + 1, Len(a))
RemoveAt(a, pos) == SubSeq(a, 1, pos) \o SubSeq(a, pos + 2, Len(a))

\* SortedList.add: the list's maximum is consulted first, then the list.
\* [list, exc]
SortedListAdd(a, x) ==
    IF a = <<>> THEN [list |-> <<x>>, exc |-> "ok"]
    ELSE IF bisect_right(<<a[Len(a)]>>, x, 0, 1) = -1
    THEN [list |-> a, exc |-> "TypeError"]
    ELSE IF bisect_right(<<a[Len(a)]>>, x, 0, 1) = 1
    THEN [list |-> Append(a, x), exc |-> "ok"]
    ELSE IF bisect_right(a, x, 0, Len(a)) = -1
    THEN [list |-> a, exc |-> "TypeError"]
    ELSE [list |-> InsertAt(a, bisect_right(a, x, 0, Len(a)), x), exc |-> "ok"]

\* SortedList.discard: removes one occurrence, if there is one.
SortedListDiscard(a, x) ==
    IF a = <<>> THEN [list |-> a, exc |-> "ok"]
    ELSE IF bisect_left(<<a[Len(a)]>>, x, 0, 1) = -1
    THEN [list |-> a, exc |-> "TypeError"]
    ELSE IF bisect_left(<<a[Len(a)]>>, x, 0, 1) = 1
    THEN [list |-> a, exc |-> "ok"]
    ELSE IF bisect_left(a, x, 0, Len(a)) = -1
    THEN [list |-> a, exc |-> "TypeError"]
    ELSE IF a[bisect_left(a, x, 0, Len(a)) + 1] = x
    THEN [list |-> RemoveAt(a, bisect_left(a, x, 0, Len(a))), exc |-> "ok"]
    ELSE [list |-> a, exc |-> "ok"]

\* SortedList.bisect_left
SortedListBisectLeft(a, x) ==
    IF a = <<>> THEN 0
    ELSE IF bisect_left(<<a[Len(a)]>>, x, 0, 1) = -1 THEN -1
    ELSE IF bisect_left(<<a[Len(a)]>>, x, 0, 1) = 1 THEN Len(a)
    ELSE bisect_left(a, x, 0, Len(a))

SortedIndexNew == [kind |-> "sorted", sorted_list |-> <<>>]

\* SortedIndex.insert: [index, exc]
SortedInsert(idx, pk, value) ==
    LET r == SortedListAdd(idx.sorted_list, <<value, pk>>) IN
    [index |-> [idx EXCEPT !.sorted_list = r.list], exc |-> r.exc]

\* SortedIndex.delete: [index, exc]
SortedDelete(idx, pk, value) ==
    LET r == SortedListDiscard(idx.sorted_list, <<value, pk>>) IN
    [index |-> [idx EXCEPT !.sorted_list = r.list], exc |-> r.exc]

\* SortedIndex.update: delete, then insert.
SortedUpdate(idx, pk, old_value, new_value) ==
    LET d == SortedDelete(idx, pk, old_value) IN
    IF d.exc # "ok" THEN d ELSE SortedInsert(d.index, pk, new_value)

\* The scan of SortedIndex.search from position idx on: [pks, exc]
RECURSIVE SortedSearchFrom(_, _, _, _)
SortedSearchFrom(a, value, idx, result) ==
    IF idx >= Len(a) THEN [pks |-> result, exc |-> "ok"]
    ELSE LET c == ValCmp(a[idx + 1][1], value) IN
         IF c = "eq" THEN SortedSearchFrom(a, value, idx + 1, result \cup {a[idx + 1][2]})
         ELSE IF c = "err" THEN [pks |-> {}, exc |-> "TypeError"]
         ELSE IF c = "gt" THEN [pks |-> result, exc |-> "ok"]
         ELSE SortedSearchFrom(a, value, idx + 1, result)

\* SortedIndex.search: [pks, exc]
SortedSearch(idx, value) ==
    IF SortedListBisectLeft(idx.sorted_list, <<value>>) = -1
    THEN [pks |-> {}, exc |-> "TypeError"]
    ELSE SortedSearchFrom(idx.sorted_list, value,
            SortedListBisectLeft(idx.sorted_list, <<value>>), {})

\* SortedList.bisect_right
SortedListBisectRight(a, x) ==
    IF a = <<>> THEN 0
    ELSE IF bisect_right(<<a[Len(a)]>>, x, 0, 1) = -1 THEN -1
    ELSE IF bisect_right(<<a[Len(a)]>>, x, 0, 1) = 1 THEN Len(a)
    ELSE bisect_right(a, x, 0, Len(a))

\* The loop of search_lt / search_lte over the list from its start:
\* collect while v < value (v <= value), stop at the first entry beyond.
RECURSIVE SearchBelowFrom(_, _, _, _, _)
SearchBelowFrom(op, a, value, idx, result) ==
    IF idx >= Len(a) THEN [pks |-> result, exc |-> "ok"]
    ELSE LET c == Compare(op, a[idx + 1][1], value) IN
         IF c = "err" THEN [pks |-> {}, exc |-> "TypeError"]
         ELSE IF c = "true"
         THEN SearchBelowFrom(op, a, value, idx + 1, result \cup {a[idx + 1][2]})
         ELSE [pks |-> result, exc |-> "ok"]

\* SortedIndex.search_lt and search_lte: [pks, exc]
search_lt(idx, value) == SearchBelowFrom("lt", idx.sorted_list, value, 0, {})
search_lte(idx, value) == SearchBelowFrom("lte", idx.sorted_list, value, 0, {})

\* The first loop of search_gt: the position of the first entry with
\* v > value from idx on, or -1 when the comparison raises.
RECURSIVE SkipNotAbove(_, _, _)
SkipNotAbove(a, value, idx) ==
    IF idx >= Len(a) THEN idx
    ELSE LET c == Compare("gt", a[idx + 1][1], value) IN
         IF c = "err" THEN -1
         ELSE IF c = "true" THEN idx
         ELSE SkipNotAbove(a, value, idx + 1)
\* The primary keys of the entries from position idx on.
PksFrom(a, idx) == {a[i][2] : i \in (idx + 1)..Len(a)}

\* A search_gt that collects from the bisect position on, without the loop
\* that steps over the entries equal to value.
search_gt_from_bisect(idx, value) ==
    IF SortedListBisectRight(idx.sorted_list, <<value>>) = -1
    THEN [pks |-> {}, exc |-> "TypeError"]
    ELSE [pks |-> PksFrom(idx.sorted_list,
                          SortedListBisectRight(idx.sorted_list, <<value>>)),
          exc |-> "ok"]
\* SortedIndex.search_gt: [pks, exc]
search_gt(idx, value) ==
    IF SortedListBisectRight(idx.sorted_list, <<value>>) = -1
    THEN [pks |-> {}, exc |-> "TypeError"]
    ELSE LET start == SkipNotAbove(idx.sorted_list, value,
                        SortedListBisectRight(idx.sorted_list, <<value>>))
         IN  IF start = -1 THEN [pks |-> {}, exc |-> "TypeError"]
             ELSE [pks |-> PksFrom(idx.sorted_list, start), exc |-> "ok"]

\* The loop of search_gte: collect every entry with v >= value from idx on.
RECURSIVE SearchGteFrom(_, _, _, _)
SearchGteFrom(a, value, idx, result) ==
    IF idx >= Len(a) THEN [pks |-> result, exc |-> "ok"]
    ELSE LET c == Compare("gte", a[idx + 1][1], value) IN
         IF c = "err" THEN [pks |-> {}, exc |-> "TypeError"]
         ELSE SearchGteFrom(a, value, idx + 1,
                IF c = "true" THEN result \cup {a[idx + 1][2]} ELSE result)
\* SortedIndex.search_gte: [pks, exc]
search_gte(idx, value) ==
    IF SortedListBisectLeft(idx.sorted_list, <<value>>) = -1
    THEN [pks |-> {}, exc |-> "TypeError"]
    ELSE SearchGteFrom(idx.sorted_list, value,
            SortedListBisectLeft(idx.sorted_list, <<value>>), {})

\* The four range searches by name.
RangeOps == {"lt", "lte", "gt", "gte"}
RangeSearch(op, idx, value) ==
    CASE op = "lt" -> search_lt(idx, value)
      [] op = "lte" -> search_lte(idx, value)
      [] op = "gt" -> search_gt(idx, value)
      [] op = "gte" -> search_gte(idx, value)

\* ---------------------------------------------------------------- IndexBase
\* The four operations of an index, by its class.  Insert, delete and update
\* give [index, exc]: the index afterwards and "ok" or the exception raised.
IndexInsertOp(idx, pk, value) ==
    IF idx.kind = "hash" THEN [index |-> HashInsert(idx, pk, value), exc |-> "ok"]
    ELSE SortedInsert(idx, pk, value)
IndexDeleteOp(idx, pk, value) ==
    IF idx.kind = "hash" THEN [index |-> HashDelete(idx, pk, value), exc |-> "ok"]
    ELSE SortedDelete(idx, pk, value)
IndexUpdateOp(idx, pk, old_value, new_value) ==
    IF idx.kind = "hash"
    THEN [index |-> HashUpdate(idx, pk, old_value, new_value), exc |-> "ok"]
    ELSE SortedUpdate(idx, pk, old_value, new_value)
IndexSearchOp(idx, value) ==
    IF idx.kind = "hash" THEN [pks |-> HashSearch(idx, value), exc |-> "ok"]
    ELSE SortedSearch(idx, value)

IndexInsert(idx, pk, value) == IndexInsertOp(idx, pk, value).index
IndexDelete(idx, pk, value) == IndexDeleteOp(idx, pk, value).index
IndexUpdate(idx, pk, old_value, new_value) == IndexUpdateOp(idx, pk, old_value, new_value).index
\* The primary keys search(value) returns; none when it raises.
IndexSearch(idx, value) == IndexSearchOp(idx, value).pks

\* ---------------------------------------------------------------- index upkeep
\* The tables of the model index the fields of IndexFields, a single field, so
\* the loops over self.indexes.items() below have at most one iteration and
\* the iteration order of the dict plays no part.

\* Table._update_indexes_on_insert: the indexes afterwards
update_indexes_on_insert(idxs, record) ==
    [f \in DOMAIN idxs |->
        IF f \in DOMAIN record
        THEN IndexInsert(idxs[f], record[PrimaryKey], record[f])
        ELSE idxs[f]]
\* ... and "ok" or the exception an index raised
update_indexes_on_insert_exc(idxs, record) ==
    IF \E f \in DOMAIN idxs :
            /\ f \in DOMAIN record
            /\ IndexInsertOp(idxs[f], record[PrimaryKey], record[f]).exc # "ok"
    THEN "TypeError" ELSE "ok"

\* Table._update_indexes_on_update
update_indexes_on_update(idxs, pk, old_record, new_record) ==
    [f \in DOMAIN idxs |->
        IF Get(old_record, f) = Get(new_record, f)
        THEN idxs[f]
        ELSE IndexUpdate(idxs[f], pk, Get(old_record, f), Get(new_record, f))]
update_indexes_on_update_exc(idxs, pk, old_record, new_record) ==
    IF \E f \in DOMAIN idxs :
            /\ Get(old_record, f) # Get(new_record, f)
            /\ IndexUpdateOp(idxs[f], pk, Get(old_record, f), Get(new_record, f)).exc # "ok"
    THEN "TypeError" ELSE "ok"

\* Table._update_indexes_on_delete
update_indexes_on_delete(idxs, record) ==
    [f \in DOMAIN idxs |->
        IF f \in DOMAIN record
        THEN IndexDelete(idxs[f], record[PrimaryKey], record[f])
        ELSE idxs[f]]
update_indexes_on_delete_exc(idxs, record) ==
    IF \E f \in DOMAIN idxs :
            /\ f \in DOMAIN record
            /\ IndexDeleteOp(idxs[f], record[PrimaryKey], record[f]).exc # "ok"
    THEN "TypeError" ELSE "ok"

\* ---------------------------------------------------------------- create_index
\* "btree" stands for any index type other than "hash" and "sorted".
IndexTypes == {"hash", "sorted", "btree"}
\* The fields create_index is called on.
IndexFields == {"a"}

\* The index class of an index type: [index, exc]
IndexCreate(index_type) ==
    CASE index_type = "hash" -> [index |-> HashIndexNew, exc |-> "ok"]
      [] index_type = "sorted" -> [index |-> SortedIndexNew, exc |-> "ok"]
      [] OTHER -> [index |-> HashIndexNew, exc |-> "ValueError"]

\* A replay that stops after the first record.
PopulateIndexFirstOnly(idx, recs, field) ==
    IF recs = <<>> \/ field \notin DOMAIN Head(recs).rec
    THEN [index |-> idx, exc |-> "ok"]
    ELSE IndexInsertOp(idx, Head(recs).key, Head(recs).rec[field])

\* The loop of create_index that replays the existing records into the
\* index: [index, exc]
RECURSIVE PopulateIndex(_, _, _)
PopulateIndex(idx, recs, field) ==
    IF recs = <<>> THEN [index |-> idx, exc |-> "ok"]
    ELSE IF field \notin DOMAIN Head(recs).rec
    THEN PopulateIndex(idx, Tail(recs), field)
    ELSE LET r == IndexInsertOp(idx, Head(recs).key, Head(recs).rec[field]) IN
         IF r.exc # "ok" THEN r ELSE PopulateIndex(r.index, Tail(recs), field)

\* The try block of create_index: [index, exc]
BuildIndex(recs, field, index_type) ==
    IF IndexCreate(index_type).exc # "ok" THEN IndexCreate(index_type)
    ELSE PopulateIndex(IndexCreate(index_type).index, recs, field)

\* create_index that replaces the index of a field that has one.
create_index_rebuilds(recs, idxs, field, index_type) ==
    IF BuildIndex(recs, field, index_type).exc # "ok" THEN idxs
    ELSE [f \in (DOMAIN idxs) \cup {field} |->
            IF f = field THEN BuildIndex(recs, field, index_type).index ELSE idxs[f]]

\* create_index that registers the index before replaying the records, so a
\* failure leaves the unfinished index in place.
create_index_registers_first(recs, idxs, field, index_type) ==
    IF field \in DOMAIN idxs THEN idxs
    ELSE IF IndexCreate(index_type).exc # "ok" THEN idxs
    ELSE [f \in (DOMAIN idxs) \cup {field} |->
            IF f = field THEN BuildIndex(recs, field, index_type).index ELSE idxs[f]]

\* Table.create_index: the indexes afterwards.  It never raises: a failure
\* is logged and the field stays without an index.
create_index(recs, idxs, field, index_type) ==
    IF field \in DOMAIN idxs THEN idxs
    ELSE IF BuildIndex(recs, field, index_type).exc # "ok" THEN idxs
    ELSE [f \in (DOMAIN idxs) \cup {field} |->
            IF f = field THEN BuildIndex(recs, field, index_type).index ELSE idxs[f]]

\* What create_index reports: "ok", or "logged" when the except branch ran.
create_index_outcome(recs, idxs, field, index_type) ==
    IF field \in DOMAIN idxs THEN "ok"
    ELSE IF BuildIndex(recs, field, index_type).exc # "ok" THEN "logged"
    ELSE "ok"

\* ---------------------------------------------------------------- insert
\* A key assignment that counts the records instead of taking the maximum.
InsertKeyedByCount(recs, record) ==
    IF PrimaryKey \notin DOMAIN record
    THEN RecordWith(record, [f \in {PrimaryKey} |-> IntV(Len(recs) + 1)])
    ELSE record

\* Table.insert: the record as stored (the primary key assigned when absent).
InsertKeyed(recs, record) ==
    IF PrimaryKey \notin DOMAIN record
    THEN RecordWith(record,
            [f \in {PrimaryKey} |->
                IF recs # <<>> THEN IntV(MaxKeyOf(recs).val + 1) ELSE IntV(1)])
    ELSE record

\* The end of Table.insert, for a record that has its key: the validation,
\* self.records[record[pk]] = record (which replaces a record stored under
\* the key), and the index upkeep.
InsertStore(sch, recs, idxs, keyed) ==
    IF validate_record(sch, keyed) # "ok"
    THEN [records |-> recs, indexes |-> idxs, outcome |-> validate_record(sch, keyed)]
    ELSE [records |->
            IF keyed[PrimaryKey] \in Keys(recs)
            THEN SetRec(recs, keyed[PrimaryKey], keyed)
            ELSE Append(recs, [key |-> keyed[PrimaryKey], rec |-> keyed]),
          indexes |-> update_indexes_on_insert(idxs, keyed),
          outcome |-> update_indexes_on_insert_exc(idxs, keyed)]

\* An insert without the duplicate check: self.records[key] = record
\* replaces the record stored under the key.
insert_overwrites(sch, recs, idxs, record) ==
    LET keyed == InsertKeyed(recs, record) IN
    IF validate_record(sch, keyed) # "ok"
    THEN [records |-> recs, indexes |-> idxs, outcome |-> validate_record(sch, keyed)]
    ELSE [records |->
            IF keyed[PrimaryKey] \in Keys(recs)
            THEN SetRec(recs, keyed[PrimaryKey], keyed)
            ELSE Append(recs, [key |-> keyed[PrimaryKey], rec |-> keyed]),
          indexes |-> update_indexes_on_insert(idxs, keyed),
          outcome |-> update_indexes_on_insert_exc(idxs, keyed)]

\* An insert that validates after it has stored and indexed the record.
insert_validates_late(sch, recs, idxs, record) ==
    LET keyed == InsertKeyed(recs, record) IN
    IF PrimaryKey \in DOMAIN record /\ record[PrimaryKey] \in Keys(recs)
    THEN [records |-> recs, indexes |-> idxs, outcome |-> "DuplicateKeyError"]
    ELSE [records |-> Append(recs, [key |-> keyed[PrimaryKey], rec |-> keyed]),
          indexes |-> update_indexes_on_insert(idxs, keyed),
          outcome |-> IF validate_record(sch, keyed) # "ok"
                      THEN validate_record(sch, keyed)
                      ELSE update_indexes_on_insert_exc(idxs, keyed)]

\* Table.insert: [records, indexes, outcome]
insert(sch, recs, idxs, record) ==
    LET keyed == InsertKeyed(recs, record) IN
    IF PrimaryKey \in DOMAIN record /\ record[PrimaryKey] \in Keys(recs)
    THEN [records |-> recs, indexes |-> idxs, outcome |-> "DuplicateKeyError"]
    ELSE IF validate_record(sch, keyed) # "ok"
    THEN [records |-> recs, indexes |-> idxs, outcome |-> validate_record(sch, keyed)]
    ELSE [records |-> Append(recs, [key |-> keyed[PrimaryKey], rec |-> keyed]),
          indexes |-> update_indexes_on_insert(idxs, keyed),
          outcome |-> update_indexes_on_insert_exc(idxs, keyed)]

\* A sequence of insert calls, one per record of rs, until one raises:
\* [records, indexes, outcome]
RECURSIVE InsertAll(_, _, _, _)
InsertAll(sch, recs, idxs, rs) ==
    IF rs = <<>> THEN [records |-> recs, indexes |-> idxs, outcome |-> "ok"]
    ELSE LET r == insert(sch, recs, idxs, Head(rs)) IN
         IF r.outcome # "ok" THEN r
         ELSE InsertAll(sch, r.records, r.indexes, Tail(rs))

\* The table that create_index(field, index_type) followed by the inserts
\* of rs gives, and the one the inserts followed by create_index give.
IndexThenInserts(sch, rs, field, index_type) ==
    InsertAll(sch, <<>>, create_index(<<>>, NoIndexes, field, index_type), rs)
InsertsThenIndex(sch, rs, field, index_type) ==
    LET t == InsertAll(sch, <<>>, NoIndexes, rs) IN
    [records |-> t.records,
     indexes |-> create_index(t.records, NoIndexes, field, index_type),
     outcome |-> t.outcome]

\* ---------------------------------------------------------------- update
\* An iteration that replaces the matched record by the changes.
UpdateEntryReplaces(sch, recs, i, changes, where, st) ==
    IF WhereRaises(where, recs[i].rec)
    THEN [records |-> recs, updated_keys |-> st.updated_keys, backup |-> st.backup,
          updated_count |-> st.updated_count, exc |-> "TypeError"]
    ELSE IF ~WhereHolds(where, recs[i].rec)
    THEN [records |-> recs, updated_keys |-> st.updated_keys, backup |-> st.backup,
          updated_count |-> st.updated_count, exc |-> "ok"]
    ELSE [records |-> [recs EXCEPT ![i].rec = changes],
          updated_keys |-> Append(st.updated_keys, recs[i].key),
          backup |-> [k \in (DOMAIN st.backup) \cup {recs[i].key} |->
                        IF k = recs[i].key THEN recs[i].rec ELSE st.backup[k]],
          updated_count |->
            IF validate_record(sch, changes) = "ok"
            THEN st.updated_count + 1 ELSE st.updated_count,
          exc |-> validate_record(sch, changes)]

\* One iteration of the loop of Table.update over self.records.items(), on
\* entry i.  st holds the locals updated_keys, backup and updated_count; exc
\* is the exception the iteration raised, or "ok".
UpdateEntry(sch, recs, i, changes, where, st) ==
    IF WhereRaises(where, recs[i].rec)
    THEN [records |-> recs, updated_keys |-> st.updated_keys, backup |-> st.backup,
          updated_count |-> st.updated_count, exc |-> "TypeError"]
    ELSE IF ~WhereHolds(where, recs[i].rec)
    THEN [records |-> recs, updated_keys |-> st.updated_keys, backup |-> st.backup,
          updated_count |-> st.updated_count, exc |-> "ok"]
    ELSE LET key == recs[i].key
             modified == RecordWith(recs[i].rec, changes)
             backup2 == [k \in (DOMAIN st.backup) \cup {key} |->
                            IF k = key THEN recs[i].rec ELSE st.backup[k]]
         IN  [records |-> [recs EXCEPT ![i].rec = modified],
              updated_keys |-> Append(st.updated_keys, key),
              backup |-> backup2,
              updated_count |->
                IF validate_record(sch, modified) = "ok"
                THEN st.updated_count + 1 ELSE st.updated_count,
              exc |-> validate_record(sch, modified)]

\* An update that returns 0 when nothing matched.
UpdateLoopEndQuiet(recs, st) ==
    [records |-> recs, updated_keys |-> st.updated_keys, backup |-> st.backup,
     updated_count |-> st.updated_count, exc |-> "ok"]

\* The end of the loop: no match raises RecordNotFoundError.
UpdateLoopEnd(recs, st) ==
    [records |-> recs, updated_keys |-> st.updated_keys, backup |-> st.backup,
     updated_count |-> st.updated_count,
     exc |-> IF st.updated_count = 0 THEN "RecordNotFoundError" ELSE "ok"]

\* The whole loop, from entry i on.
RECURSIVE UpdateLoop(_, _, _, _, _, _)
UpdateLoop(sch, recs, i, changes, where, st) ==
    IF i > Len(recs) THEN UpdateLoopEnd(recs, st)
    ELSE LET r == UpdateEntry(sch, recs, i, changes, where, st) IN
         IF r.exc # "ok" THEN r
         ELSE UpdateLoop(sch, r.records, i + 1, changes, where, r)

UpdateStart == [records |-> <<>>, updated_keys |-> <<>>,
                backup |-> [k \in {} |-> EmptyRecord],
                updated_count |-> 0, exc |-> "ok"]

\* An except branch that re-raises without restoring anything.
UpdateNoRollback(recs, updated_keys, backup) == recs

\* The except branch of Table.update: every touched key gets its backup back.
RECURSIVE UpdateRollback(_, _, _)
UpdateRollback(recs, updated_keys, backup) ==
    IF updated_keys = <<>> THEN recs
    ELSE UpdateRollback(SetRec(recs, Head(updated_keys), backup[Head(updated_keys)]),
                        Tail(updated_keys), backup)

\* The index pass of Table.update, after the loop succeeded: the indexes
\* afterwards.  It stops at the first key whose index update raises.
RECURSIVE UpdateIndexes(_, _, _, _)
UpdateIndexes(idxs, recs, updated_keys, backup) ==
    IF updated_keys = <<>> THEN idxs
    ELSE IF update_indexes_on_update_exc(idxs, Head(updated_keys),
                backup[Head(updated_keys)], RecAt(recs, Head(updated_keys))) # "ok"
    THEN update_indexes_on_update(idxs, Head(updated_keys),
                backup[Head(updated_keys)], RecAt(recs, Head(updated_keys)))
    ELSE UpdateIndexes(
            update_indexes_on_update(idxs, Head(updated_keys),
                backup[Head(updated_keys)], RecAt(recs, Head(updated_keys))),
            recs, Tail(updated_keys), backup)
\* ... and "ok" or the exception that stopped it
RECURSIVE UpdateIndexesExc(_, _, _, _)
UpdateIndexesExc(idxs, recs, updated_keys, backup) ==
    IF updated_keys = <<>> THEN "ok"
    ELSE IF update_indexes_on_update_exc(idxs, Head(updated_keys),
                backup[Head(updated_keys)], RecAt(recs, Head(updated_keys))) # "ok"
    THEN "TypeError"
    ELSE UpdateIndexesExc(
            update_indexes_on_update(idxs, Head(updated_keys),
                backup[Head(updated_keys)], RecAt(recs, Head(updated_keys))),
            recs, Tail(updated_keys), backup)

\* An update that keeps the index entries in step with the records as it
\* modifies them, and raises without undoing them.
update_indexing_in_loop(sch, recs, idxs, changes, where) ==
    LET r == UpdateLoop(sch, recs, 1, changes, where, UpdateStart) IN
    IF r.exc # "ok"
    THEN [records |-> UpdateRollback(r.records, r.updated_keys, r.backup),
          indexes |-> UpdateIndexes(idxs, r.records, r.updated_keys, r.backup),
          outcome |-> r.exc, count |-> 0]
    ELSE [records |-> r.records,
          indexes |-> UpdateIndexes(idxs, r.records, r.updated_keys, r.backup),
          outcome |-> UpdateIndexesExc(idxs, r.records, r.updated_keys, r.backup),
          count |-> IF UpdateIndexesExc(idxs, r.records, r.updated_keys, r.backup) = "ok"
                    THEN r.updated_count ELSE 0]
\* Table.update: [records, indexes, outcome, count]
update(sch, recs, idxs, changes, where) ==
    LET r == UpdateLoop(sch, recs, 1, changes, where, UpdateStart) IN
    IF r.exc # "ok"
    THEN [records |-> UpdateRollback(r.records, r.updated_keys, r.backup),
          indexes |-> idxs, outcome |-> r.exc, count |-> 0]
    ELSE [records |-> r.records,
          indexes |-> UpdateIndexes(idxs, r.records, r.updated_keys, r.backup),
          outcome |-> UpdateIndexesExc(idxs, r.records, r.updated_keys, r.backup),
          count |-> IF UpdateIndexesExc(idxs, r.records, r.updated_keys, r.backup) = "ok"
                    THEN r.updated_count ELSE 0]

\* ---------------------------------------------------------------- delete
\* keys_to_delete of Table.delete, in scan order.
RECURSIVE KeysToDelete(_, _)
KeysToDelete(recs, where) ==
    IF recs = <<>> THEN <<>>
    ELSE (IF WhereHolds(where, Head(recs).rec) THEN <<Head(recs).key>> ELSE <<>>)
         \o KeysToDelete(Tail(recs), where)

\* A removal loop that ends after the first key.
DeleteLoopFirstOnly(recs, idxs, keys) ==
    IF keys = <<>> THEN [records |-> recs, indexes |-> idxs, exc |-> "ok"]
    ELSE [records |-> DelKey(recs, Head(keys)),
          indexes |-> update_indexes_on_delete(idxs, RecAt(recs, Head(keys))),
          exc |-> update_indexes_on_delete_exc(idxs, RecAt(recs, Head(keys)))]

\* The removal loop of Table.delete: [records, indexes, exc].  A record whose
\* index removal raises stays in the record map, and the loop ends there.
RECURSIVE DeleteLoop(_, _, _)
DeleteLoop(recs, idxs, keys) ==
    IF keys = <<>> THEN [records |-> recs, indexes |-> idxs, exc |-> "ok"]
    ELSE IF update_indexes_on_delete_exc(idxs, RecAt(recs, Head(keys))) # "ok"
    THEN [records |-> recs,
          indexes |-> update_indexes_on_delete(idxs, RecAt(recs, Head(keys))),
          exc |-> "TypeError"]
    ELSE DeleteLoop(DelKey(recs, Head(keys)),
                    update_indexes_on_delete(idxs, RecAt(recs, Head(keys))),
                    Tail(keys))

\* Table.delete: [records, indexes, outcome, count]
delete(recs, idxs, where) ==
    IF \E i \in 1..Len(recs) : WhereRaises(where, recs[i].rec)
    THEN [records |-> recs, indexes |-> idxs, outcome |-> "TypeError", count |-> 0]
    ELSE IF KeysToDelete(recs, where) = <<>>
    THEN [records |-> recs, indexes |-> idxs, outcome |-> "RecordNotFoundError", count |-> 0]
    ELSE LET d == DeleteLoop(recs, idxs, KeysToDelete(recs, where)) IN
         [records |-> d.records, indexes |-> d.indexes, outcome |-> d.exc,
          count |-> IF d.exc = "ok" THEN Len(KeysToDelete(recs, where)) ELSE 0]

\* ---------------------------------------------------------------- reads
\* Table.all: copies of all records, in scan order.
all(recs) == [i \in 1..Len(recs) |-> recs[i].rec]

\* Table._is_indexed_eq_condition
is_indexed_eq_condition(idxs, where) ==
    where.op = "eq" /\ where.field \in DOMAIN idxs

\* The primary keys of a set in the order Python iterates a set of small
\* ints: ascending.
RECURSIVE PksInOrder(_)
PksInOrder(pks) ==
    IF pks = {} THEN <<>>
    ELSE LET m == CHOOSE x \in pks : \A y \in pks : x.val <= y.val
         IN  <<m>> \o PksInOrder(pks \ {m})

\* The filter loop of Table.select over the candidate records.
RECURSIVE FilterRecords(_, _)
FilterRecords(candidates, where) ==
    IF candidates = <<>> THEN <<>>
    ELSE (IF WhereHolds(where, Head(candidates)) THEN <<Head(candidates)>> ELSE <<>>)
         \o FilterRecords(Tail(candidates), where)

\* The candidate records of Table.select: [rows, exc].  On the index path a
\* key the index returns is looked up in the record map (KeyError if absent).
Candidates(recs, idxs, where) ==
    IF is_indexed_eq_condition(idxs, where)
    THEN LET found == IndexSearchOp(idxs[where.field], where.value) IN
         IF found.exc # "ok" THEN [rows |-> <<>>, exc |-> found.exc]
         ELSE IF ~(found.pks \subseteq Keys(recs)) THEN [rows |-> <<>>, exc |-> "KeyError"]
         ELSE [rows |-> [i \in 1..Cardinality(found.pks) |->
                            RecAt(recs, PksInOrder(found.pks)[i])],
               exc |-> "ok"]
    ELSE [rows |-> all(recs), exc |-> "ok"]

\* Table.select(where=...): [rows, exc]
select(recs, idxs, where) ==
    LET c == Candidates(recs, idxs, where) IN
    IF c.exc # "ok" THEN c
    ELSE IF \E i \in 1..Len(c.rows) : WhereRaises(where, c.rows[i])
    THEN [rows |-> <<>>, exc |-> "TypeError"]
    ELSE [rows |-> FilterRecords(c.rows, where), exc |-> "ok"]

\* The elements of a sequence.
Range(seq) == {seq[i] : i \in 1..Len(seq)}

\* ---------------------------------------------------------------- ordering
\* Largest number of records the model hands to the ordering functions.
MaxRows == 3

\* The order_by keys the model uses, field.startswith("-") and field[1:].
OrderKeys == {"a", "-a", "id", "-id"}
StartsWithDash(field) == field \in {"-a", "-id"}
StripDash(field) ==
    CASE field = "-a" -> "a"
      [] field = "-id" -> "id"
      [] OTHER -> field

\* list.sort(key=..., reverse=...) raises TypeError when two keys are compared
\* and one of them is None; every key of a list of two or more is compared.
SortRaises(list, fname) ==
    Len(list) >= 2 /\ \E i \in 1..Len(list) : Get(list[i], fname).type # "int"

\* One step of a stable sort: e enters the sorted list behind every element
\* that does not have to follow it.
RECURSIVE InsertInOrder(_, _, _, _)
InsertInOrder(list, e, fname, desc) ==
    IF list = <<>> THEN <<e>>
    ELSE IF (IF desc THEN Get(Head(list), fname).val < Get(e, fname).val
                     ELSE Get(e, fname).val < Get(Head(list), fname).val)
         THEN <<e>> \o list
         ELSE <<Head(list)>> \o InsertInOrder(Tail(list), e, fname, desc)

\* result.sort(key=_make_key(fname), reverse=desc): stable; with reverse the
\* elements of equal key keep their order too.
RECURSIVE ListSortFrom(_, _, _, _)
ListSortFrom(done, rest, fname, desc) ==
    IF rest = <<>> THEN done
    ELSE ListSortFrom(InsertInOrder(done, Head(rest), fname, desc), Tail(rest), fname, desc)
ListSort(list, fname, desc) == ListSortFrom(<<>>, list, fname, desc)

\* reversed(fields)
Reversed(seq) == [i \in 1..Len(seq) |-> seq[Len(seq) + 1 - i]]

\* The loop of _sort_records over the fields in the order given: [rows, exc].
RECURSIVE SortPasses(_, _)
SortPasses(list, fields) ==
    IF fields = <<>> THEN [rows |-> list, exc |-> "ok"]
    ELSE LET desc == StartsWithDash(Head(fields))
             fname == StripDash(Head(fields))
         IN  IF SortRaises(list, fname) THEN [rows |-> <<>>, exc |-> "TypeError"]
             ELSE SortPasses(ListSort(list, fname, desc), Tail(fields))

\* _sort_records with its passes made from the first field to the last.
sort_records_forward(list, order_by) == SortPasses(list, order_by)

\* _sort_records: one stable pass per field, from the last field to the first.
sort_records(list, order_by) == SortPasses(list, Reversed(order_by))

\* order_records: order_by None (or empty) leaves the list as it is.
order_records(list, order_by) ==
    IF order_by = <<>> THEN [rows |-> list, exc |-> "ok"]
    ELSE sort_records(list, order_by)

\* heapq keeps (key(elem), order, elem) triples and compares them as tuples;
\* elem is never compared because the orders differ.
Triple(k, order, elem) == [k |-> k, order |-> order, elem |-> elem]
TripleLess(x, y) ==
    TupleCmp(<<x.k, IntV(x.order)>>, <<y.k, IntV(y.order)>>) = "lt"
HeapMax(heap) == CHOOSE x \in heap : \A y \in heap : y = x \/ TripleLess(y, x)
HeapMin(heap) == CHOOSE x \in heap : \A y \in heap : y = x \/ TripleLess(x, y)

\* result.sort() and result.sort(reverse=True) over the triples, then
\* [elem for (k, order, elem) in result].
RECURSIVE TriplesAscending(_)
TriplesAscending(heap) ==
    IF heap = {} THEN <<>>
    ELSE <<HeapMin(heap).elem>> \o TriplesAscending(heap \ {HeapMin(heap)})
RECURSIVE TriplesDescending(_)
TriplesDescending(heap) ==
    IF heap = {} THEN <<>>
    ELSE <<HeapMax(heap).elem>> \o TriplesDescending(heap \ {HeapMax(heap)})

\* min(it, key=key) and max(it, key=key): the first element of extreme key.
MinByKey(list, fname) ==
    list[CHOOSE i \in 1..Len(list) :
            \A j \in 1..Len(list) :
                /\ Get(list[i], fname).val <= Get(list[j], fname).val
                /\ (j < i => Get(list[i], fname).val < Get(list[j], fname).val)]
MaxByKey(list, fname) ==
    list[CHOOSE i \in 1..Len(list) :
            \A j \in 1..Len(list) :
                /\ Get(list[i], fname).val >= Get(list[j], fname).val
                /\ (j < i => Get(list[i], fname).val > Get(list[j], fname).val)]

\* The loop of heapq.nsmallest: an element of key below the top replaces it.
RECURSIVE NSmallestLoop(_, _, _, _)
NSmallestLoop(heap, rest, order, fname) ==
    IF rest = <<>> THEN heap
    ELSE LET k == Get(Head(rest), fname) IN
         IF k.val < HeapMax(heap).k.val
         THEN NSmallestLoop((heap \ {HeapMax(heap)}) \cup {Triple(k, order, Head(rest))},
                            Tail(rest), order + 1, fname)
         ELSE NSmallestLoop(heap, Tail(rest), order, fname)

\* heapq.nsmallest(n, list, key=r.get(fname)) for n < len(list): [rows, exc].
\* Any comparison with a None key raises; with n = 0 nothing is compared.
nsmallest(n, list, fname) ==
    IF n = 0 THEN [rows |-> <<>>, exc |-> "ok"]
    ELSE IF \E i \in 1..Len(list) : Get(list[i], fname).type # "int"
    THEN [rows |-> <<>>, exc |-> "TypeError"]
    ELSE IF n = 1 THEN [rows |-> <<MinByKey(list, fname)>>, exc |-> "ok"]
    ELSE LET first == {Triple(Get(list[i], fname), i - 1, list[i]) : i \in 1..n}
         IN  [rows |-> TriplesAscending(
                          NSmallestLoop(first, SubSeq(list, n + 1, Len(list)), n, fname)),
              exc |-> "ok"]

\* The loop of heapq.nlargest: an element of key above the top replaces it.
RECURSIVE NLargestLoop(_, _, _, _, _)
NLargestLoop(heap, rest, order, step, fname) ==
    IF rest = <<>> THEN heap
    ELSE LET k == Get(Head(rest), fname) IN
         IF HeapMin(heap).k.val < k.val
         THEN NLargestLoop((heap \ {HeapMin(heap)}) \cup {Triple(k, order, Head(rest))},
                           Tail(rest), order + step, step, fname)
         ELSE NLargestLoop(heap, Tail(rest), order, step, fname)

\* heapq.nlargest numbering its triples 0, 1, 2, ... as nsmallest does.
nlargest_counts_up(n, list, fname) ==
    IF n = 0 THEN [rows |-> <<>>, exc |-> "ok"]
    ELSE IF \E i \in 1..Len(list) : Get(list[i], fname).type # "int"
    THEN [rows |-> <<>>, exc |-> "TypeError"]
    ELSE IF n = 1 THEN [rows |-> <<MaxByKey(list, fname)>>, exc |-> "ok"]
    ELSE LET first == {Triple(Get(list[i], fname), i - 1, list[i]) : i \in 1..n}
         IN  [rows |-> TriplesDescending(
                          NLargestLoop(first, SubSeq(list, n + 1, Len(list)), n, 1, fname)),
              exc |-> "ok"]

\* heapq.nlargest(n, list, key=r.get(fname)) for n < len(list): [rows, exc].
\* The triples are numbered 0, -1, -2, ... so that the descending sort keeps
\* elements of equal key in their order.
nlargest(n, list, fname) ==
    IF n = 0 THEN [rows |-> <<>>, exc |-> "ok"]
    ELSE IF \E i \in 1..Len(list) : Get(list[i], fname).type # "int"
    THEN [rows |-> <<>>, exc |-> "TypeError"]
    ELSE IF n = 1 THEN [rows |-> <<MaxByKey(list, fname)>>, exc |-> "ok"]
    ELSE LET first == {Triple(Get(list[i], fname), 1 - i, list[i]) : i \in 1..n}
         IN  [rows |-> TriplesDescending(
                          NLargestLoop(first, SubSeq(list, n + 1, Len(list)), 0 - n, -1, fname)),
              exc |-> "ok"]

\* order_records_with_limit: limit is None or an int, offset an int.
order_records_with_limit(list, order_by, limit, offset) ==
    IF order_by = <<>> THEN [rows |-> list, exc |-> "ok"]
    ELSE IF limit = None THEN sort_records(list, order_by)
    ELSE IF offset + limit.val >= Len(list) THEN sort_records(list, order_by)
    ELSE IF Len(order_by) = 1
         THEN IF StartsWithDash(order_by[1])
              THEN nlargest(offset + limit.val, list, StripDash(order_by[1]))
              ELSE nsmallest(offset + limit.val, list, StripDash(order_by[1]))
    ELSE sort_records(list, order_by)

\* slice_records(ordered, limit=limit, offset=offset): ordered[offset:] cut to
\* limit elements when a limit is given.
slice_records(list, limit, offset) ==
    LET last == IF limit = None THEN Len(list)
                ELSE IF offset + limit.val < Len(list) THEN offset + limit.val
                ELSE Len(list)
    IN  SubSeq(list, offset + 1, last)

\* project_records: columns None hands each record on as it is, a list of
\* names builds a new mapping with rec.get(col) for each name.
NoColumns == [given |-> FALSE, names |-> <<>>]
ColumnNames(names) == [given |-> TRUE, names |-> names]
project_records(list, columns) ==
    IF ~columns.given THEN list
    ELSE [i \in 1..Len(list) |->
            [col \in Range(columns.names) |-> Get(list[i], col)]]

\* Table.select(columns, where, order_by=..., limit=..., offset=...): the
\* filter under the lock, then ordering, slicing and projection: [rows, exc].
select_query(recs, idxs, columns, where, order_by, limit, offset) ==
    LET filtered == select(recs, idxs, where)
        ordered == order_records(filtered.rows, order_by)
    IN  IF filtered.exc # "ok" THEN filtered
        ELSE IF ordered.exc # "ok" THEN ordered
        ELSE [rows |-> project_records(slice_records(ordered.rows, limit, offset), columns),
              exc |-> "ok"]

\* ---------------------------------------------------------------- RWLock
\* dictdb.core.rwlock.RWLock: a count of active readers, the active-writer
\* flag and a count of waiting writers.
Threads == 1..NumThreads
RWLockNew == [readers |-> 0, writer |-> FALSE, writers_waiting |-> 0]

\* A reader preference: readers join whenever no writer is active.
read_ready_ignores_waiting(l) == ~l.writer
\* An exclusive lock: a reader enters only an unheld lock.
read_ready_exclusive(l) == ~l.writer /\ l.writers_waiting = 0 /\ l.readers = 0
\* A reader may enter: no writer is active and none is waiting.
read_ready(l) == ~l.writer /\ l.writers_waiting = 0
acquire_read(l) == [l EXCEPT !.readers = @ + 1]
release_read(l) == [l EXCEPT !.readers = @ - 1]

\* A writer that only waits for other writers.
write_ready_ignores_readers(l) == ~l.writer
\* A writer first registers as waiting, then enters once nobody holds the lock.
write_request(l) == [l EXCEPT !.writers_waiting = @ + 1]
write_ready(l) == ~l.writer /\ l.readers = 0
acquire_write(l) == [l EXCEPT !.writer = TRUE, !.writers_waiting = @ - 1]
release_write(l) == [l EXCEPT !.writer = FALSE]

LockIdle ==
    /\ lock = RWLockNew
    /\ pc = [t \in Threads |-> "idle"]
    /\ ahead = [t \in Threads |-> {}]
    /\ queued = [t \in Threads |-> FALSE]
    /\ stack = [t \in Threads |-> <<>>]
    /\ uloc = [t \in Threads |-> UpdateStart]
    /\ observed = [t \in Threads |-> "none"]

\* Threads that use the lock directly: with lock.read_lock(): ... and
\* with lock.write_lock(): ...
RequestRead(t) ==
    /\ pc[t] = "idle"
    /\ pc' = [pc EXCEPT ![t] = "r_wait"]
    /\ ahead' = [ahead EXCEPT ![t] = {w \in Threads : pc[w] = "w_wait"}]
    /\ queued' = [queued EXCEPT ![t] = \E w \in Threads : pc[w] = "w_wait"]
    /\ UNCHANGED <<auxVars, lock, tableVars, callVars, callerVars>>

AcquireRead(t) ==
    /\ pc[t] = "r_wait"
    /\ read_ready(lock)
    /\ lock' = acquire_read(lock)
    /\ pc' = [pc EXCEPT ![t] = "r_hold"]
    /\ UNCHANGED <<auxVars, ahead, queued, tableVars, callVars, callerVars>>

ReleaseRead(t) ==
    /\ pc[t] = "r_hold"
    /\ lock' = release_read(lock)
    /\ pc' = [pc EXCEPT ![t] = "idle"]
    /\ queued' = [queued EXCEPT ![t] = FALSE]
    /\ UNCHANGED <<auxVars, ahead, tableVars, callVars, callerVars>>

RequestWrite(t) ==
    /\ pc[t] = "idle"
    /\ lock' = write_request(lock)
    /\ pc' = [pc EXCEPT ![t] = "w_wait"]
    /\ UNCHANGED <<auxVars, ahead, queued, tableVars, callVars, callerVars>>

AcquireWrite(t) ==
    /\ pc[t] = "w_wait"
    /\ write_ready(lock)
    /\ lock' = acquire_write(lock)
    /\ pc' = [pc EXCEPT ![t] = "w_hold"]
    /\ UNCHANGED <<auxVars, ahead, queued, tableVars, callVars, callerVars>>

ReleaseWrite(t) ==
    /\ pc[t] = "w_hold"
    /\ lock' = release_write(lock)
    /\ pc' = [pc EXCEPT ![t] = "idle"]
    /\ ahead' = [u \in Threads |-> ahead[u] \ {t}]
    /\ UNCHANGED <<auxVars, queued, tableVars, callVars, callerVars>>

LockInit ==
    /\ records = <<>>
    /\ schema = NoSchema
    /\ indexes = [f \in {} |-> HashIndexNew]
    /\ lastOp = "init"
    /\ outcome = "ok"
    /\ LockIdle
    /\ AuxIdle

LockNext ==
    \E t \in Threads :
        \/ RequestRead(t)
        \/ AcquireRead(t)
        \/ ReleaseRead(t)
        \/ RequestWrite(t)
        \/ AcquireWrite(t)
        \/ ReleaseWrite(t)

LockSpec == LockInit /\ [][LockNext]_vars

\* Fair scheduling: a thread inside the lock leaves it, and a writer that
\* finds the lock free again and again eventually wins it.
LockLiveSpec ==
    /\ LockSpec
    /\ \A t \in Threads :
        /\ WF_vars(ReleaseRead(t))
        /\ WF_vars(ReleaseWrite(t))
        /\ SF_vars(AcquireWrite(t))

\* ---------------------------------------------------------------- table calls
\* Threads that call the methods of one shared table.
Callers == 1..NumCallers

\* select that reads without taking the lock.
LockModeSelectUnlocked(name, sch) ==
    CASE name \in {"insert", "update", "delete", "create_index"} -> "write"
      [] name \in {"copy", "all", "count", "indexed_fields", "has_index"} -> "read"
      [] name = "columns" -> IF sch.defined THEN "none" ELSE "read"
      [] OTHER -> "none"
\* size() that takes the read lock itself before it calls count().
LockModeSizeLocks(name, sch) ==
    CASE name \in {"insert", "update", "delete", "create_index"} -> "write"
      [] name \in {"select", "copy", "all", "count", "indexed_fields", "has_index",
                   "size"} -> "read"
      [] name = "columns" -> IF sch.defined THEN "none" ELSE "read"
      [] OTHER -> "none"
\* has_index() and indexed_fields() that look at self.indexes without a lock.
LockModeIndexMapUnlocked(name, sch) ==
    CASE name \in {"insert", "update", "delete", "create_index"} -> "write"
      [] name \in {"select", "copy", "all", "count"} -> "read"
      [] name = "columns" -> IF sch.defined THEN "none" ELSE "read"
      [] OTHER -> "none"
\* insert that takes the read lock, which several threads hold at a time.
LockModeInsertShared(name, sch) ==
    CASE name \in {"update", "delete", "create_index"} -> "write"
      [] name \in {"insert", "select", "copy", "all", "count", "indexed_fields",
                   "has_index"} -> "read"
      [] name = "columns" -> IF sch.defined THEN "none" ELSE "read"
      [] OTHER -> "none"
\* The lock each Table method takes around its body: write_lock(),
\* read_lock(), or none.
LockMode(name, sch) ==
    CASE name \in {"insert", "update", "delete", "create_index"} -> "write"
      [] name \in {"select", "copy", "all", "count", "indexed_fields", "has_index"}
            -> "read"
      [] name = "columns" -> IF sch.defined THEN "none" ELSE "read"
      [] OTHER -> "none"

\* size() and __len__() return self.count().
Delegates == {"size", "__len__"}
Delegate(name) == "count"

Frame(name, arg, where) == [name |-> name, arg |-> arg, where |-> where]
Plain(name) == Frame(name, EmptyRecord, NoWhere)
TableCalls ==
    {Frame("insert", [id |-> IntV(k), a |-> IntV(1)], NoWhere) : k \in {1, 2}}
    \cup {Frame("insert", [a |-> IntV(1)], NoWhere)}
    \cup {Frame("update", [a |-> None], NoWhere)}
    \cup {Frame("select", EmptyRecord, [op |-> "eq", field |-> "a", value |-> IntV(1)])}
    \cup {Frame("select", EmptyRecord, [op |-> "lt", field |-> "a", value |-> IntV(2)])}
    \cup {Plain(n) : n \in {"delete", "create_index", "select", "all", "copy",
                            "count", "size", "__len__", "columns",
                            "indexed_fields", "has_index", "schema_fields",
                            "primary_key_name"}}

Top(stk) == stk[Len(stk)]
In(t, names) == stack[t] # <<>> /\ Top(stack[t]).name \in names

\* Entering a method: a method without a lock runs its body at once, the
\* others ask for their lock (a writer registers as waiting).
EnterFrame(t, name) ==
    /\ lock' = IF LockMode(name, schema) = "write" THEN write_request(lock) ELSE lock
    /\ pc' = [pc EXCEPT ![t] = IF LockMode(name, schema) = "none" THEN "body" ELSE "wait"]

\* Leaving: every method on the stack releases the lock it took.
RECURSIVE ReleaseAll(_, _, _)
ReleaseAll(l, stk, sch) ==
    IF stk = <<>> THEN l
    ELSE ReleaseAll(
            CASE LockMode(Head(stk).name, sch) = "read" -> release_read(l)
              [] LockMode(Head(stk).name, sch) = "write" -> release_write(l)
              [] OTHER -> l,
            Tail(stk), sch)

\* The step caller t is about to take ends its call with an exception:
\* DuplicateKeyError or SchemaValidationError from insert, the re-raise of
\* update's except branch, RecordNotFoundError from delete, or the
\* TypeError of a where condition in select.
Raises(t) ==
    \/ pc[t] = "rollback"
    \/ /\ pc[t] = "body" /\ In(t, {"insert"})
       /\ PrimaryKey \in DOMAIN Top(stack[t]).arg
       /\ insert(schema, records, indexes, Top(stack[t]).arg).outcome # "ok"
    \/ /\ pc[t] = "store"
       /\ InsertStore(schema, records, indexes, Top(stack[t]).arg).outcome # "ok"
    \/ /\ pc[t] = "body" /\ In(t, {"delete"})
       /\ delete(records, indexes, Top(stack[t]).where).outcome # "ok"
    \/ /\ pc[t] = "body" /\ In(t, {"select"})
       /\ select(records, indexes, Top(stack[t]).where).exc # "ok"

\* A return that leaves the with block without releasing when the body
\* raised.
ReturnHoldsAfterRaise(t) ==
    /\ lock' = IF Raises(t) THEN lock ELSE ReleaseAll(lock, stack[t], schema)
    /\ stack' = [stack EXCEPT ![t] = <<>>]
    /\ pc' = [pc EXCEPT ![t] = "idle"]
\* Leaving a method, by return or by exception: the with blocks on the
\* stack release their locks.
Return(t) ==
    /\ lock' = ReleaseAll(lock, stack[t], schema)
    /\ stack' = [stack EXCEPT ![t] = <<>>]
    /\ pc' = [pc EXCEPT ![t] = "idle"]

\* An update in flight: its loop has not completed, or its rollback is due.
InFlight(u) == In(u, {"update"}) /\ pc[u] \in {"body", "rollback"}
\* The record map shows changes of an update in flight.
Torn ==
    \E u \in Callers :
        /\ InFlight(u)
        /\ UpdateRollback(records, uloc[u].updated_keys, uloc[u].backup) # records

\* The inserts that are under way.
InsertsUnderWay == Cardinality({u \in Callers : In(u, {"insert"})})

\* A call of a Table method.  An insert without a primary key is made only
\* while the table, with the inserts under way, holds fewer than MaxKey
\* records.
CallFrom(t, calls) ==
    \E c \in calls :
        /\ pc[t] = "idle"
        /\ (c.name = "insert" /\ PrimaryKey \notin DOMAIN c.arg)
                => Len(records) + InsertsUnderWay < MaxKey
        /\ stack' = [stack EXCEPT ![t] = <<c>>]
        /\ observed' = [observed EXCEPT ![t] = "none"]
        /\ EnterFrame(t, c.name)
        /\ UNCHANGED <<auxVars, tableVars, callVars, ahead, queued, uloc>>

Call(t) == CallFrom(t, TableCalls)

Acquire(t) ==
    /\ pc[t] = "wait"
    /\ \/ /\ LockMode(Top(stack[t]).name, schema) = "read"
          /\ read_ready(lock)
          /\ lock' = acquire_read(lock)
       \/ /\ LockMode(Top(stack[t]).name, schema) = "write"
          /\ write_ready(lock)
          /\ lock' = acquire_write(lock)
    /\ pc' = [pc EXCEPT ![t] = "body"]
    /\ UNCHANGED <<auxVars, tableVars, callVars, ahead, queued, callerVars>>

\* insert of a record that has its primary key: the duplicate check, the
\* validation, the store and the index upkeep.
BodyInsert(t) ==
    /\ pc[t] = "body" /\ In(t, {"insert"})
    /\ PrimaryKey \in DOMAIN Top(stack[t]).arg
    /\ LET r == insert(schema, records, indexes, Top(stack[t]).arg) IN
        /\ records' = r.records
        /\ indexes' = r.indexes
    /\ Return(t)
    /\ UNCHANGED <<auxVars, schema, callVars, ahead, queued, uloc, observed>>

\* insert of a record without a primary key, first step: new_key is
\* computed from the record map and written into the caller's record.
BodyInsertAssignKey(t) ==
    /\ pc[t] = "body" /\ In(t, {"insert"})
    /\ PrimaryKey \notin DOMAIN Top(stack[t]).arg
    /\ stack' = [stack EXCEPT ![t][Len(stack[t])].arg = InsertKeyed(records, @)]
    /\ pc' = [pc EXCEPT ![t] = "store"]
    /\ UNCHANGED <<auxVars, tableVars, callVars, lock, ahead, queued, uloc, observed>>

\* Second step: the validation, self.records[record[pk]] = record, and the
\* index upkeep.
BodyInsertStore(t) ==
    /\ pc[t] = "store"
    /\ LET r == InsertStore(schema, records, indexes, Top(stack[t]).arg) IN
        /\ records' = r.records
        /\ indexes' = r.indexes
    /\ Return(t)
    /\ UNCHANGED <<auxVars, schema, callVars, ahead, queued, uloc, observed>>

BodyDelete(t) ==
    /\ pc[t] = "body" /\ In(t, {"delete"})
    /\ LET r == delete(records, indexes, Top(stack[t]).where) IN
        /\ records' = r.records
        /\ indexes' = r.indexes
    /\ Return(t)
    /\ UNCHANGED <<auxVars, schema, callVars, ahead, queued, uloc, observed>>

BodyCreateIndex(t) ==
    /\ pc[t] = "body" /\ In(t, {"create_index"})
    /\ indexes' = create_index(records, indexes, "a", "hash")
    /\ Return(t)
    /\ UNCHANGED <<auxVars, records, schema, callVars, ahead, queued, uloc, observed>>

\* select (where=None), all and copy: copies of the records as they stand.
BodyRead(t) ==
    /\ pc[t] = "body" /\ In(t, {"select", "all", "copy"})
    /\ observed' = [observed EXCEPT ![t] = IF Torn THEN "torn" ELSE "clean"]
    /\ Return(t)
    /\ UNCHANGED <<auxVars, tableVars, callVars, ahead, queued, uloc>>

\* count, columns, indexed_fields, has_index, schema_fields, primary_key_name
BodyIntrospect(t) ==
    /\ pc[t] = "body"
    /\ In(t, {"count", "columns", "indexed_fields", "has_index", "schema_fields",
              "primary_key_name"})
    /\ Return(t)
    /\ UNCHANGED <<auxVars, tableVars, callVars, ahead, queued, uloc, observed>>

\* size and __len__: the body is the call of count().
BodyDelegate(t) ==
    /\ pc[t] = "body" /\ In(t, Delegates)
    /\ stack' = [stack EXCEPT ![t] = Append(@, Plain(Delegate(Top(@).name)))]
    /\ EnterFrame(t, Delegate(Top(stack[t]).name))
    /\ UNCHANGED <<auxVars, tableVars, callVars, ahead, queued, uloc, observed>>

\* update, one entry of self.records.items() at a time.
UpdateStep(t) ==
    /\ pc[t] = "body" /\ In(t, {"update"})
    /\ LET i == Len(uloc[t].records) + 1
           r == IF i > Len(records) THEN UpdateLoopEnd(records, uloc[t])
                ELSE UpdateEntry(schema, records, i, Top(stack[t]).arg,
                                 Top(stack[t]).where, uloc[t])
       IN /\ records' = r.records
          /\ uloc' = [uloc EXCEPT ![t] =
                        [r EXCEPT !.records =
                            IF i > Len(records) THEN uloc[t].records
                            ELSE Append(uloc[t].records, records[i])]]
          /\ pc' = [pc EXCEPT ![t] =
                        IF r.exc # "ok" THEN "rollback"
                        ELSE IF i > Len(records) THEN "index" ELSE "body"]
    /\ UNCHANGED <<auxVars, schema, indexes, callVars, lock, ahead, queued, stack, observed>>

\* update's except branch: restore the backups and re-raise.
UpdateRollbackStep(t) ==
    /\ pc[t] = "rollback"
    /\ records' = UpdateRollback(records, uloc[t].updated_keys, uloc[t].backup)
    /\ uloc' = [uloc EXCEPT ![t] = UpdateStart]
    /\ Return(t)
    /\ UNCHANGED <<auxVars, schema, indexes, callVars, ahead, queued, observed>>

\* update's index pass, then the return.
UpdateIndexStep(t) ==
    /\ pc[t] = "index"
    /\ indexes' = UpdateIndexes(indexes, records, uloc[t].updated_keys, uloc[t].backup)
    /\ uloc' = [uloc EXCEPT ![t] = UpdateStart]
    /\ Return(t)
    /\ UNCHANGED <<auxVars, records, schema, callVars, ahead, queued, observed>>

\* A step of a call that is under way.
Progress(t) ==
    \/ Acquire(t)
    \/ BodyInsert(t)
    \/ BodyInsertAssignKey(t)
    \/ BodyInsertStore(t)
    \/ BodyDelete(t)
    \/ BodyCreateIndex(t)
    \/ BodyRead(t)
    \/ BodyIntrospect(t)
    \/ BodyDelegate(t)
    \/ UpdateStep(t)
    \/ UpdateRollbackStep(t)
    \/ UpdateIndexStep(t)

ConcInit ==
    /\ records = <<>>
    /\ schema \in {NoSchema, TableSchema([defined |-> TRUE, types |-> [f \in {"a"} |-> "int"]])}
    /\ indexes = [f \in {} |-> HashIndexNew]
    /\ lastOp = "init"
    /\ outcome = "ok"
    /\ LockIdle
    /\ AuxIdle

ConcNext == \E t \in Callers : Call(t) \/ Progress(t)

ConcSpec == ConcInit /\ [][ConcNext]_vars

\* The calls of the fair runs: one of each method that takes the lock, with
\* the arguments that make them raise on some tables (a key that may be
\* stored, a where that raises on None, an update that fits no schema).
LiveCalls ==
    {Frame("insert", [id |-> IntV(1), a |-> IntV(1)], NoWhere),
     Frame("insert", [a |-> IntV(1)], NoWhere),
     Frame("update", [a |-> None], NoWhere),
     Frame("select", EmptyRecord, [op |-> "lt", field |-> "a", value |-> IntV(2)])}
    \cup {Plain(n) : n \in {"delete", "create_index", "count", "size"}}
ConcLiveNext == \E t \in Callers : CallFrom(t, LiveCalls) \/ Progress(t)

\* Fair scheduling: a call under way keeps taking steps, and a caller that
\* finds the lock free again and again eventually takes it.
ConcLiveSpec ==
    /\ ConcInit /\ [][ConcLiveNext]_vars
    /\ \A t \in Callers :
        /\ WF_vars(Progress(t))
        /\ SF_vars(Acquire(t))

\* What the next step of a caller does with self.indexes: "write" for the
\* bodies that insert into, delete from, update or register an index,
\* "read" for a search or a look at the index map, "none" otherwise. select
\* looks at the index map only when it is given a condition.
IndexAccess(t) ==
    CASE pc[t] = "body" /\ In(t, {"delete", "create_index"}) -> "write"
      [] pc[t] = "body" /\ In(t, {"insert"})
            /\ PrimaryKey \in DOMAIN Top(stack[t]).arg -> "write"
      [] pc[t] \in {"store", "index"} -> "write"
      [] pc[t] = "body" /\ In(t, {"indexed_fields", "has_index"}) -> "read"
      [] pc[t] = "body" /\ In(t, {"select"}) /\ Top(stack[t]).where.op = "eq" -> "read"
      [] OTHER -> "none"
\* The caller is inside write_lock() / read_lock() of its innermost method.
HoldsWrite(t) ==
    /\ pc[t] \in {"body", "store", "rollback", "index"}
    /\ LockMode(Top(stack[t]).name, schema) = "write"
    /\ lock.writer
HoldsRead(t) ==
    /\ pc[t] = "body"
    /\ LockMode(Top(stack[t]).name, schema) = "read"
    /\ lock.readers >= 1
    /\ ~lock.writer

\* ---------------------------------------------------------------- inputs
RecordsOver(idvals, avals) ==
    UNION {[S -> idvals \cup avals] : S \in SUBSET FieldNames}
InputRecords ==
    {r \in RecordsOver(KeyValues, DataValues) :
        /\ (PrimaryKey \in DOMAIN r => r[PrimaryKey] \in KeyValues)
        /\ ("a" \in DOMAIN r => r["a"] \in DataValues)}

\* The changes mappings given to update: empty, or naming one field.
InputChanges == {r \in InputRecords : Cardinality(DOMAIN r) <= 1}

\* The sorted indexes hold at most MaxEntries entries.
IndexesBounded(idxs) ==
    \A f \in DOMAIN idxs :
        idxs[f].kind = "sorted" => Len(idxs[f].sorted_list) <= MaxEntries

\* ---------------------------------------------------------------- actions
Init ==
    /\ records = <<>>
    /\ \E arg \in SchemaArgs : schema = TableSchema(arg)
    /\ indexes = [f \in {} |-> HashIndexNew]
    /\ lastOp = "init"
    /\ outcome = "ok"
    /\ LockIdle
    /\ AuxIdle

Insert ==
    \E record \in InputRecords :
        /\ (PrimaryKey \notin DOMAIN record /\ records # <<>>
                => MaxKeyOf(records).val < MaxKey)
        /\ \E r \in {insert(schema, records, indexes, record)} :
            /\ IndexesBounded(r.indexes)
            /\ records' = r.records
            /\ indexes' = r.indexes
            /\ outcome' = r.outcome
        /\ lastOp' = "insert"
        /\ UNCHANGED <<auxVars, schema, lockVars, callerVars>>

Update ==
    \E changes \in InputChanges, where \in Wheres :
        /\ \E r \in {update(schema, records, indexes, changes, where)} :
            /\ IndexesBounded(r.indexes)
            /\ records' = r.records
            /\ indexes' = r.indexes
            /\ outcome' = r.outcome
        /\ lastOp' = "update"
        /\ UNCHANGED <<auxVars, schema, lockVars, callerVars>>

Delete ==
    \E where \in Wheres :
        /\ \E r \in {delete(records, indexes, where)} :
            /\ IndexesBounded(r.indexes)
            /\ records' = r.records
            /\ indexes' = r.indexes
            /\ outcome' = r.outcome
        /\ lastOp' = "delete"
        /\ UNCHANGED <<auxVars, schema, lockVars, callerVars>>

CreateIndex ==
    \E field \in IndexFields, index_type \in IndexTypes :
        /\ \E r \in {create_index(records, indexes, field, index_type)} :
            /\ IndexesBounded(r)
            /\ indexes' = r
        /\ outcome' = create_index_outcome(records, indexes, field, index_type)
        /\ lastOp' = "create_index"
        /\ UNCHANGED <<auxVars, records, schema, lockVars, callerVars>>

Next == Insert \/ Update \/ Delete \/ CreateIndex

Spec == Init /\ [][Next]_vars

\* ---------------------------------------------------------------- ordering calls
\* The record lists handed to the ordering functions: up to MaxRows records
\* of distinct primary keys, as the filter of select produces them.
Absent == [type |-> "absent", val |-> 0]
OrderRecord(k, a) ==
    IF a = Absent THEN [f \in {"id"} |-> IntV(k)]
    ELSE [f \in {"id", "a"} |-> IF f = "id" THEN IntV(k) ELSE a]
OrderRows ==
    UNION {{[i \in 1..n |-> OrderRecord(ks[i], as[i])] :
                ks \in {f \in [1..n -> 1..MaxRows] :
                            \A i, j \in 1..n : i # j => f[i] # f[j]},
                as \in [1..n -> DataValues \cup {Absent}]} :
           n \in 0..MaxRows}

\* order_by: None, one key, or a list of two keys.
OrderBys ==
    {<<>>} \cup {<<k>> : k \in OrderKeys} \cup {<<k, l>> : k, l \in OrderKeys}
Limits == {None} \cup {IntV(n) : n \in 0..MaxRows}
Offsets == 0..MaxRows

OrderInit ==
    /\ records = <<>>
    /\ schema = NoSchema
    /\ indexes = NoIndexes
    /\ lastOp = "init"
    /\ outcome = "ok"
    /\ LockIdle
    /\ rows \in OrderRows
    /\ query = [fn |-> "none", order_by |-> <<>>, limit |-> None, offset |-> 0]
    /\ returned = [rows |-> <<>>, exc |-> "none"]
    /\ OwnerIdle
    /\ BackupIdle
    /\ TwinIdle

\* Each behaviour makes one call on the list it starts with.
OrderRecords ==
    \E order_by \in OrderBys :
        /\ query.fn = "none"
        /\ query' = [fn |-> "order_records", order_by |-> order_by,
                     limit |-> None, offset |-> 0]
        /\ returned' = order_records(rows, order_by)
        /\ UNCHANGED <<coreVars, ownerVars, backupVars, twinVars, rows>>

OrderRecordsWithLimit ==
    \E order_by \in OrderBys, limit \in Limits, offset \in Offsets :
        /\ query.fn = "none"
        /\ query' = [fn |-> "order_records_with_limit", order_by |-> order_by,
                     limit |-> limit, offset |-> offset]
        /\ returned' = order_records_with_limit(rows, order_by, limit, offset)
        /\ UNCHANGED <<coreVars, ownerVars, backupVars, twinVars, rows>>

OrderNext == OrderRecords \/ OrderRecordsWithLimit

OrderSpec == OrderInit /\ [][OrderNext]_vars

\* ---------------------------------------------------------------- records as objects
\* Largest number of dict objects alive at once.
MaxObjects == 4
Refs == 1..MaxObjects
FreeRefs(h) == Refs \ DOMAIN h

\* A new dict with the given contents; it gets the lowest free reference.
NewObject(h, contents) ==
    LET o == CHOOSE x \in FreeRefs(h) : \A y \in FreeRefs(h) : x <= y
    IN  [heap |-> [r \in (DOMAIN h) \cup {o} |-> IF r = o THEN contents ELSE h[r]],
         ref |-> o]
\* One new dict per element of a list of contents: [heap, refs].
RECURSIVE NewObjectsFrom(_, _, _)
NewObjectsFrom(h, contents, refs) ==
    IF contents = <<>> THEN [heap |-> h, refs |-> refs]
    ELSE LET n == NewObject(h, Head(contents))
         IN  NewObjectsFrom(n.heap, Tail(contents), Append(refs, n.ref))
NewObjects(h, contents) == NewObjectsFrom(h, contents, <<>>)

\* The objects that can still be reached; the others are gone.
Sweep(h, live) == [r \in (DOMAIN h) \cap live |-> h[r]]

\* Table.records by value: each reference replaced by the dict it names.
View(h, tbl) ==
    [i \in 1..Len(tbl) |-> [key |-> tbl[i].key, rec |-> h[tbl[i].ref]]]
StoredRefs(tbl) == {tbl[i].ref : i \in 1..Len(tbl)}
RefOfKey(tbl, k) == tbl[CHOOSE i \in 1..Len(tbl) : tbl[i].key = k].ref

\* filtered_records.append(record) without the copy: the stored dicts
\* themselves are handed on.
CopyRecordsShared(h, refs) == [heap |-> h, refs |-> refs]

\* filtered_records.append(record.copy()), record.copy() in all and copy:
\* [heap, refs]
CopyRecords(h, refs) == NewObjects(h, [i \in 1..Len(refs) |-> h[refs[i]]])

\* project_records over references: without columns the records handed in
\* are returned, with columns new dicts are built.
ProjectObjects(h, refs, columns) ==
    IF ~columns.given THEN [heap |-> h, refs |-> refs]
    ELSE NewObjects(h, project_records([i \in 1..Len(refs) |-> h[refs[i]]], columns))

\* What the caller does in this part of the model: records with or without a
\* key, conditions that evaluate on every record, changes of the field "a".
OwnRecords ==
    {r \in InputRecords : \A f \in DOMAIN r : r[f] # None}
OwnWheres == {w \in Wheres : w.op = "none" \/ (w.op = "eq" /\ w.value = IntV(1))}
OwnChanges == {[f \in {"a"} |-> v] : v \in {IntV(1), IntV(2)}}
OwnColumns == {NoColumns, ColumnNames(<<"a">>), ColumnNames(<<"id", "a">>)}
OwnOrderBys == {<<>>, <<"-id">>}
OwnLimits == {None, IntV(1)}

OwnerInit ==
    /\ records = <<>>
    /\ schema = NoSchema
    /\ indexes = NoIndexes
    /\ lastOp = "init"
    /\ outcome = "ok"
    /\ LockIdle
    /\ OrderIdle
    /\ BackupIdle
    /\ TwinIdle
    /\ objects = <<>> /\ table = <<>> /\ handed = {} /\ got = <<>> /\ touched = 0

\* The caller builds a dict and passes it to Table.insert, which adds the key
\* to it when it has none and stores the dict itself; the caller keeps it.
\* Before a call that changes the table the caller lets go of the list its
\* last read returned.
OwnInsert ==
    \E record \in OwnRecords :
        /\ FreeRefs(objects) # {}
        /\ (PrimaryKey \notin DOMAIN record /\ records # <<>>
                => MaxKeyOf(records).val < MaxKey)
        /\ \E r \in {insert(schema, records, indexes, record)} :
            /\ outcome' = r.outcome
            /\ indexes' = r.indexes
            /\ records' = r.records
            /\ IF r.outcome = "ok"
               THEN \E n \in {NewObject(objects, r.records[Len(r.records)].rec)} :
                        /\ objects' = Sweep(n.heap, (DOMAIN n.heap) \ Range(got))
                        /\ table' = Append(table, [key |-> r.records[Len(r.records)].key,
                                                   ref |-> n.ref])
                        /\ handed' = handed \cup {n.ref}
               ELSE /\ objects' = Sweep(objects, (DOMAIN objects) \ Range(got))
                    /\ UNCHANGED <<table, handed>>
        /\ got' = <<>>
        /\ lastOp' = "insert"
        /\ touched' = 0
        /\ UNCHANGED <<schema, lockVars, callerVars, orderVars, backupVars, twinVars>>

\* Table.update: record.update(changes) writes into the stored dicts.
OwnUpdate ==
    \E changes \in OwnChanges, where \in OwnWheres :
        /\ \E r \in {update(schema, records, indexes, changes, where)} :
            /\ outcome' = r.outcome
            /\ indexes' = r.indexes
            /\ records' = r.records
            /\ objects' = [o \in StoredRefs(table) |->
                              RecAt(r.records, objects[o][PrimaryKey])]
        /\ got' = <<>>
        /\ lastOp' = "update"
        /\ touched' = 0
        /\ UNCHANGED <<schema, lockVars, callerVars, orderVars, backupVars, twinVars, table, handed>>

\* Table.delete: del self.records[key]; the caller lets go of the dicts of
\* deleted records.
OwnDelete ==
    \E where \in OwnWheres :
        /\ \E r \in {delete(records, indexes, where)} :
            /\ outcome' = r.outcome
            /\ indexes' = r.indexes
            /\ records' = r.records
            /\ table' = SelectSeq(table, LAMBDA e : e.key \in Keys(r.records))
            /\ handed' = handed \cap StoredRefs(table')
            /\ objects' = Sweep(objects, StoredRefs(table'))
        /\ got' = <<>>
        /\ lastOp' = "delete"
        /\ touched' = 0
        /\ UNCHANGED <<schema, lockVars, callerVars, orderVars, backupVars, twinVars>>

\* Table.select: the matching records are copied, ordered, sliced and
\* projected; the caller keeps the list and lets go of the one before.
OwnSelect ==
    \E columns \in OwnColumns, where \in OwnWheres, order_by \in OwnOrderBys,
       limit \in OwnLimits :
        \E q \in {select_query(records, indexes, NoColumns, where, order_by, limit, 0)} :
            /\ IF q.exc # "ok"
               THEN UNCHANGED <<objects, got>>
               ELSE LET base == Sweep(objects, StoredRefs(table) \cup handed)
                        picked == [i \in 1..Len(q.rows) |->
                                      RefOfKey(table, q.rows[i][PrimaryKey])]
                    IN  /\ Cardinality(FreeRefs(base)) >= 2 * Len(picked)
                        /\ \E c \in {CopyRecords(base, picked)} :
                             \E out \in {ProjectObjects(c.heap, c.refs, columns)} :
                                /\ objects' = Sweep(out.heap, StoredRefs(table) \cup handed
                                                                \cup Range(out.refs))
                                /\ got' = out.refs
            /\ outcome' = q.exc
            /\ lastOp' = "select"
            /\ touched' = 0
            /\ UNCHANGED <<records, schema, indexes, lockVars, callerVars, orderVars, backupVars, twinVars,
                           table, handed>>

\* Table.all and Table.copy: a copy of every stored record.
OwnAll ==
    \E name \in {"all", "copy"} :
        LET base == Sweep(objects, StoredRefs(table) \cup handed) IN
        /\ Cardinality(FreeRefs(base)) >= Len(table)
        /\ \E c \in {CopyRecords(base, [i \in 1..Len(table) |-> table[i].ref])} :
            /\ objects' = c.heap
            /\ got' = c.refs
        /\ outcome' = "ok"
        /\ lastOp' = name
        /\ touched' = 0
        /\ UNCHANGED <<records, schema, indexes, lockVars, callerVars, orderVars, backupVars, twinVars,
                       table, handed>>

\* The caller writes through a reference it holds: d["a"] = v or del d["a"].
\* A dict the table stores as well changes for the table too.
CallerWrites ==
    \E o \in handed \cup Range(got), v \in {IntV(1), IntV(2), Absent} :
        /\ objects' = [objects EXCEPT ![o] =
                          IF v = Absent THEN [f \in (DOMAIN @) \ {"a"} |-> @[f]]
                          ELSE RecordWith(@, [f \in {"a"} |-> v])]
        /\ records' = View(objects', table)
        /\ touched' = o
        /\ lastOp' = "write"
        /\ UNCHANGED <<schema, indexes, outcome, lockVars, callerVars, orderVars, backupVars, twinVars,
                       table, handed, got>>

OwnerNext == OwnInsert \/ OwnUpdate \/ OwnDelete \/ OwnSelect \/ OwnAll \/ CallerWrites

OwnerSpec == OwnerInit /\ [][OwnerNext]_vars

\* ---------------------------------------------------------------- BackupManager
\* Number of threads that call notify_change and backup_now.
NumNotifiers == 2
\* Latest time the clock reaches.
MaxTime == 4
\* Largest number of backup_now calls made.
MaxCalls == 3
\* min_backup_interval, and time.time() when the manager is built: seconds
\* since 1970, not less than min_backup_interval after _last_backup_time = 0.0.
MinInterval == 2
StartTime == MinInterval

Notifiers == 1..NumNotifiers
PeriodicThread == NumNotifiers + 1
MainThread == NumNotifiers + 2
BackupThreads == 1..(NumNotifiers + 2)

\* BackupManager.__init__, with an on_backup_failure callback given.
BackupManagerNew ==
    [last_backup_time |-> 0, consecutive_failures |-> 0,
     stop_event |-> FALSE, backup_lock |-> FALSE]

\* notify_change: elapsed < self.min_backup_interval
NotifySkips(m, now) == now - m.last_backup_time < MinInterval

\* The try block of backup_now with the callback's exception let through.
BackupNowBodyUncaught(m, now, save_ok, callback_raises) ==
    IF save_ok
    THEN [manager |-> [m EXCEPT !.last_backup_time = now, !.consecutive_failures = 0],
          reported |-> 0, raised |-> FALSE]
    ELSE [manager |-> [m EXCEPT !.consecutive_failures = @ + 1],
          reported |-> m.consecutive_failures + 1, raised |-> callback_raises]

\* The try block of backup_now: [manager, reported, raised], reported the
\* count passed to on_backup_failure (0: not called).
BackupNowBody(m, now, save_ok, callback_raises) ==
    IF save_ok
    THEN [manager |-> [m EXCEPT !.last_backup_time = now, !.consecutive_failures = 0],
          reported |-> 0, raised |-> FALSE]
    ELSE [manager |-> [m EXCEPT !.consecutive_failures = @ + 1],
          reported |-> m.consecutive_failures + 1, raised |-> FALSE]

\* time.sleep(self.backup_interval) in place of the wait on the stop event.
StopEventSleep(m) == FALSE

\* self._stop_event.wait(self.backup_interval): True if and only if the
\* event is set.
StopEventWait(m) == m.stop_event

At(t, where) == bthreads[t].pc = where
Goto(t, where, via, start) ==
    [bthreads EXCEPT ![t] = [pc |-> where, via |-> via, start |-> start]]
\* The backup_now calls made and not yet completed.
Pending == {t \in BackupThreads : bthreads[t].pc \in {"notify", "now", "saving"}}

BackupInit ==
    /\ records = <<>>
    /\ schema = NoSchema
    /\ indexes = NoIndexes
    /\ lastOp = "init"
    /\ outcome = "ok"
    /\ LockIdle
    /\ OrderIdle
    /\ OwnerIdle
    /\ TwinIdle
    /\ clock = StartTime
    /\ manager = BackupManagerNew
    /\ bthreads = [t \in BackupThreads |->
                     [pc |-> IF t = MainThread THEN "new"
                             ELSE IF t = PeriodicThread THEN "unstarted"
                             ELSE "idle",
                      via |-> "none", start |-> 0]]
    /\ history = <<>>

\* Time passes.
Tick ==
    /\ clock < MaxTime
    /\ clock' = clock + 1
    /\ UNCHANGED <<coreVars, orderVars, ownerVars, twinVars, manager, bthreads, history>>

\* A thread calls notify_change.
CallNotify(t) ==
    /\ t \in Notifiers /\ At(t, "idle")
    /\ Len(history) + Cardinality(Pending) < MaxCalls
    /\ bthreads' = Goto(t, "notify", "notify", 0)
    /\ UNCHANGED <<coreVars, orderVars, ownerVars, twinVars, clock, manager, history>>

\* notify_change with the lock: it returns when the last backup is recent,
\* and else releases the lock and goes on to call backup_now.
NotifyCheck(t) ==
    /\ At(t, "notify") /\ ~manager.backup_lock
    /\ bthreads' = IF NotifySkips(manager, clock)
                   THEN Goto(t, "idle", "none", 0)
                   ELSE Goto(t, "now", "notify", 0)
    /\ UNCHANGED <<coreVars, orderVars, ownerVars, twinVars, clock, manager, history>>

\* A thread calls backup_now.
CallBackupNow(t) ==
    /\ t \in Notifiers /\ At(t, "idle")
    /\ Len(history) + Cardinality(Pending) < MaxCalls
    /\ bthreads' = Goto(t, "now", "now", 0)
    /\ UNCHANGED <<coreVars, orderVars, ownerVars, twinVars, clock, manager, history>>

\* backup_now takes the lock, names the file after the time, and saves.
BeginBackup(t) ==
    /\ At(t, "now") /\ ~manager.backup_lock
    /\ manager' = [manager EXCEPT !.backup_lock = TRUE]
    /\ bthreads' = Goto(t, "saving", bthreads[t].via, clock)
    /\ UNCHANGED <<coreVars, orderVars, ownerVars, twinVars, clock, history>>

\* The save ends, well or not; backup_now releases the lock and returns.
FinishBackup(t) ==
    /\ At(t, "saving")
    /\ \E save_ok \in BOOLEAN, callback_raises \in BOOLEAN :
        \E b \in {BackupNowBody(manager, clock, save_ok, callback_raises)} :
            /\ manager' = [b.manager EXCEPT !.backup_lock = FALSE]
            /\ history' = Append(history, [via |-> bthreads[t].via,
                                           start |-> bthreads[t].start,
                                           ok |-> save_ok,
                                           reported |-> b.reported,
                                           raised |-> b.raised])
    /\ bthreads' = IF t = PeriodicThread THEN Goto(t, "wait", "none", 0)
                   ELSE Goto(t, "idle", "none", 0)
    /\ UNCHANGED <<coreVars, orderVars, ownerVars, twinVars, clock>>

\* start(): the periodic thread begins its loop.
Start ==
    /\ At(MainThread, "new")
    /\ bthreads' = [bthreads EXCEPT ![MainThread].pc = "started",
                                    ![PeriodicThread].pc = "wait"]
    /\ UNCHANGED <<coreVars, orderVars, ownerVars, twinVars, clock, manager, history>>

\* The wait of _run_periodic_backup returns False: a backup is due.
PeriodicTimeout ==
    /\ At(PeriodicThread, "wait") /\ ~StopEventWait(manager)
    /\ Len(history) + Cardinality(Pending) < MaxCalls
    /\ bthreads' = Goto(PeriodicThread, "now", "periodic", 0)
    /\ UNCHANGED <<coreVars, orderVars, ownerVars, twinVars, clock, manager, history>>

\* The wait returns True: the loop and the thread end.
PeriodicExit ==
    /\ At(PeriodicThread, "wait") /\ StopEventWait(manager)
    /\ bthreads' = Goto(PeriodicThread, "done", "none", 0)
    /\ UNCHANGED <<coreVars, orderVars, ownerVars, twinVars, clock, manager, history>>

\* stop(): the event is set; the main thread notes where the periodic thread
\* stood and how many backups were done, and joins it.
Stop ==
    /\ At(MainThread, "started")
    /\ manager' = [manager EXCEPT !.stop_event = TRUE]
    /\ bthreads' = Goto(MainThread, "joining", bthreads[PeriodicThread].pc, Len(history))
    /\ UNCHANGED <<coreVars, orderVars, ownerVars, twinVars, clock, history>>

\* self._backup_thread.join() returns once the thread has ended.
Join ==
    /\ At(MainThread, "joining") /\ At(PeriodicThread, "done")
    /\ bthreads' = [bthreads EXCEPT ![MainThread].pc = "stopped"]
    /\ UNCHANGED <<coreVars, orderVars, ownerVars, twinVars, clock, manager, history>>

BackupStep(t) ==
    \/ NotifyCheck(t)
    \/ BeginBackup(t)
    \/ FinishBackup(t)
BackupNext ==
    \/ Tick
    \/ \E t \in BackupThreads : CallNotify(t) \/ CallBackupNow(t) \/ BackupStep(t)
    \/ Start \/ PeriodicTimeout \/ PeriodicExit \/ Stop \/ Join

BackupSpec == BackupInit /\ [][BackupNext]_vars

\* Scheduling: a thread that can take a step takes it, a save ends, and a
\* thread that asks for the backup lock again and again gets it.
BackupLiveSpec ==
    /\ BackupSpec
    /\ \A t \in BackupThreads :
        /\ WF_vars(NotifyCheck(t))
        /\ SF_vars(BeginBackup(t))
        /\ WF_vars(FinishBackup(t))
    /\ WF_vars(PeriodicExit)
    /\ WF_vars(Join)

\* ---------------------------------------------------------------- persistence
\* The table of the database that is saved: DictDB.tables = {"t": table}.
TableName == "t"
TableState(sch, recs, idxs) ==
    [table_name |-> TableName, primary_key |-> PrimaryKey,
     schema |-> sch, records |-> recs, indexes |-> idxs]

\* json.dumps of a value and json.load of the text written: an int is
\* written as a number, None as null.
JsonDumps(v) ==
    IF v.type = "int" THEN [json |-> "number", text |-> v.val]
    ELSE [json |-> "null", text |-> 0]
JsonLoads(j) == IF j.json = "number" THEN IntV(j.text) ELSE None
JsonDumpsRecord(rec) == [f \in DOMAIN rec |-> JsonDumps(rec[f])]
JsonLoadsRecord(obj) == [f \in DOMAIN obj |-> JsonLoads(obj[f])]

\* serialize_schema_type and parse_schema_type: a type and its name.
serialize_schema_type(typ) == [type_name |-> typ]
parse_schema_type(name) == name.type_name

\* _save_json_streaming: the name, the primary key, the schema (or null) and
\* the records, in the order of the record map, without their keys.
save_json(t) ==
    [table_name |-> t.table_name,
     primary_key |-> t.primary_key,
     schema |-> IF t.schema.defined
                THEN [null |-> FALSE,
                      fields |-> [f \in DOMAIN t.schema.types |->
                                    serialize_schema_type(t.schema.types[f])]]
                ELSE [null |-> TRUE, fields |-> <<>>],
     records |-> [i \in 1..Len(t.records) |-> JsonDumpsRecord(t.records[i].rec)]]

\* load, "json": a new Table with the saved schema, then one insert per
\* saved record; an insert that raises ends the load: [table, exc]
load_json(file) ==
    LET sch == TableSchema(
                   IF file.schema.null THEN NoSchema
                   ELSE [defined |-> TRUE,
                         types |-> [f \in DOMAIN file.schema.fields |->
                                       parse_schema_type(file.schema.fields[f])]])
        filled == InsertAll(sch, <<>>, NoIndexes,
                            [i \in 1..Len(file.records) |-> JsonLoadsRecord(file.records[i])])
    IN  [table |-> [table_name |-> file.table_name, primary_key |-> file.primary_key,
                    schema |-> sch, records |-> filled.records,
                    indexes |-> filled.indexes],
         exc |-> filled.outcome]

\* Table.__getstate__ and Table.__setstate__: the name, the primary key, the
\* record map and the schema are pickled; the loaded table has no index.
getstate(t) ==
    [table_name |-> t.table_name, primary_key |-> t.primary_key,
     records |-> t.records, schema |-> t.schema]
setstate(state) ==
    [table_name |-> state.table_name, primary_key |-> state.primary_key,
     schema |-> state.schema, records |-> state.records, indexes |-> NoIndexes]

\* save(db, filename, file_format) followed by load(filename, file_format).
FileFormats == {"json", "pickle"}
SaveThenLoad(t, file_format) ==
    IF file_format = "json" THEN load_json(save_json(t))
    ELSE [table |-> setstate(getstate(t)), exc |-> "ok"]

\* ---------------------------------------------------------------- index calls
\* A HashIndex and a SortedIndex used directly, through insert, update and
\* delete, with the same arguments for both.  The sorted list holds at most
\* MaxIndexed entries.
MaxIndexed == 3
IndexPair(h, s) == [k \in {"hash", "sorted"} |-> IF k = "hash" THEN h ELSE s]

IndexInit ==
    /\ records = <<>>
    /\ schema = NoSchema
    /\ indexes = IndexPair(HashIndexNew, SortedIndexNew)
    /\ lastOp = "init"
    /\ outcome = "ok"
    /\ LockIdle
    /\ AuxIdle

\* index.insert(pk, value)
IndexInsertCall ==
    \E pk \in KeyValues, value \in DataValues :
        \E s \in {SortedInsert(indexes["sorted"], pk, value)} :
            /\ Len(s.index.sorted_list) <= MaxIndexed
            /\ indexes' = IndexPair(HashInsert(indexes["hash"], pk, value), s.index)
            /\ lastOp' = "insert"
            /\ outcome' = s.exc
            /\ UNCHANGED <<auxVars, records, schema, lockVars, callerVars>>

\* index.update(pk, old_value, new_value)
IndexUpdateCall ==
    \E pk \in KeyValues, old_value \in DataValues, new_value \in DataValues :
        \E s \in {SortedUpdate(indexes["sorted"], pk, old_value, new_value)} :
            /\ Len(s.index.sorted_list) <= MaxIndexed
            /\ indexes' = IndexPair(HashUpdate(indexes["hash"], pk, old_value, new_value),
                                    s.index)
            /\ lastOp' = "update"
            /\ outcome' = s.exc
            /\ UNCHANGED <<auxVars, records, schema, lockVars, callerVars>>

\* index.delete(pk, value)
IndexDeleteCall ==
    \E pk \in KeyValues, value \in DataValues :
        \E s \in {SortedDelete(indexes["sorted"], pk, value)} :
            /\ indexes' = IndexPair(HashDelete(indexes["hash"], pk, value), s.index)
            /\ lastOp' = "delete"
            /\ outcome' = s.exc
            /\ UNCHANGED <<auxVars, records, schema, lockVars, callerVars>>

IndexNext == IndexInsertCall \/ IndexUpdateCall \/ IndexDeleteCall
IndexSpec == IndexInit /\ [][IndexNext]_vars

\* The values a range search is asked for: those the records hold, one below
\* and one above them, and None.
QueryValues == DataValues \cup {IntV(0), IntV(MaxKey + 1)}

\* ---------------------------------------------------------------- twin tables
\* Two tables created alike, the first with create_index(f, "hash") and the
\* second with create_index(f, "sorted"), and given the same insert, update
\* and delete calls.
TwinField == "a"
TwinTable(recs, idxs, out) == [records |-> recs, indexes |-> idxs, outcome |-> out]

TwinInit ==
    /\ records = <<>>
    /\ schema = NoSchema
    /\ indexes = create_index(<<>>, NoIndexes, TwinField, "hash")
    /\ twin = TwinTable(<<>>, create_index(<<>>, NoIndexes, TwinField, "sorted"), "ok")
    /\ lastOp = "init"
    /\ outcome = "ok"
    /\ LockIdle
    /\ OrderIdle /\ OwnerIdle /\ BackupIdle

\* The calls are made as long as the two tables have answered alike; the
\* changes of an update leave the primary key alone.
TwinsAlike == outcome = twin.outcome
TwinChanges == {c \in InputChanges : PrimaryKey \notin DOMAIN c}
TwinWheres == {w \in Wheres : w.op = "none" \/ w.field = PrimaryKey}

TwinInsert ==
    \E record \in InputRecords :
        \E r \in {insert(schema, records, indexes, record)} :
        \E s \in {insert(schema, twin.records, twin.indexes, record)} :
            /\ IndexesBounded(s.indexes)
            /\ TwinsAlike
            /\ PrimaryKey \notin DOMAIN record =>
                \A recs \in {records, twin.records} :
                    recs # <<>> => MaxKeyOf(recs).val < MaxKey
            /\ records' = r.records
            /\ indexes' = r.indexes
            /\ outcome' = r.outcome
            /\ twin' = TwinTable(s.records, s.indexes, s.outcome)
            /\ lastOp' = "insert"
            /\ UNCHANGED <<orderVars, ownerVars, backupVars, schema, lockVars, callerVars>>

TwinUpdate ==
    \E changes \in TwinChanges, where \in TwinWheres :
        \E r \in {update(schema, records, indexes, changes, where)} :
        \E s \in {update(schema, twin.records, twin.indexes, changes, where)} :
            /\ IndexesBounded(s.indexes)
            /\ TwinsAlike
            /\ records' = r.records
            /\ indexes' = r.indexes
            /\ outcome' = r.outcome
            /\ twin' = TwinTable(s.records, s.indexes, s.outcome)
            /\ lastOp' = "update"
            /\ UNCHANGED <<orderVars, ownerVars, backupVars, schema, lockVars, callerVars>>

TwinDelete ==
    \E where \in TwinWheres :
        \E r \in {delete(records, indexes, where)} :
        \E s \in {delete(twin.records, twin.indexes, where)} :
            /\ TwinsAlike
            /\ records' = r.records
            /\ indexes' = r.indexes
            /\ outcome' = r.outcome
            /\ twin' = TwinTable(s.records, s.indexes, s.outcome)
            /\ lastOp' = "delete"
            /\ UNCHANGED <<orderVars, ownerVars, backupVars, schema, lockVars, callerVars>>

TwinNext == TwinInsert \/ TwinUpdate \/ TwinDelete
TwinSpec == TwinInit /\ [][TwinNext]_vars

\* ---------------------------------------------------------------- claims
\* C1: every primary key that indexes[f].search(v) returns is a key of the
\* record map, and the record stored under it has field f equal to v.
IndexEntriesAreCurrent ==
    \A f \in DOMAIN indexes : \A v \in Values :
        \A pk \in IndexSearch(indexes[f], v) :
            /\ pk \in Keys(records)
            /\ f \in DOMAIN RecAt(records, pk)
            /\ RecAt(records, pk)[f] = v

\* C2: every record that has an indexed field f is found by
\* indexes[f].search under its current value of f.
RecordsAreIndexed ==
    \A f \in DOMAIN indexes : \A i \in 1..Len(records) :
        f \in DOMAIN records[i].rec =>
            records[i].key \in IndexSearch(indexes[f], records[i].rec[f])

\* C11: for every condition, select returns the same records (or raises the
\* same exception) through the indexes of the table as through a full scan.
SelectIgnoresIndexes ==
    \A where \in Wheres :
        /\ select(records, indexes, where).exc = select(records, NoIndexes, where).exc
        /\ Range(select(records, indexes, where).rows)
                = Range(select(records, NoIndexes, where).rows)

\* C12: create_index on a field that already has an index changes neither
\* the indexes nor the record map, whatever index type it is given.
CreateIndexOnIndexedFieldIsNoOp ==
    [][(lastOp' = "create_index" /\ IndexFields \subseteq DOMAIN indexes)
            => (indexes' = indexes /\ records' = records /\ outcome' = "ok")]_vars
\* A create_index call has just ended and the index of "a" is not the one a
\* build from the present records gives: the call found the field indexed.
CreateIndexFoundIndex ==
    /\ lastOp = "create_index"
    /\ "a" \in DOMAIN indexes
    /\ records # <<>>
    /\ indexes["a"] # BuildIndex(records, "a", indexes["a"].kind).index

\* C13: a create_index whose index construction fails returns normally,
\* adds no index, changes neither the record map nor the other indexes, and
\* selects on the field afterwards give what a full scan gives.
FailedCreateIndexChangesNothing ==
    [][(lastOp' = "create_index" /\ outcome' = "logged")
            => /\ indexes' = indexes
               /\ records' = records
               /\ IndexFields \cap DOMAIN indexes' = {}
               /\ \A where \in Wheres :
                    select(records', indexes', where) = select(records', NoIndexes, where)]_vars
FailedCreateIndexOnRecords ==
    /\ lastOp = "create_index"
    /\ outcome = "logged"
    /\ BuildIndex(records, "a", "sorted").exc = "TypeError"

\* C14: an index that create_index builds from the records a table holds
\* answers every search as an index of the same type that was created on the
\* empty table before the same records were inserted.
LateIndexEqualsEarlyIndex ==
    \A index_type \in {"hash", "sorted"} :
        LET early == IndexThenInserts(schema, all(records), "a", index_type)
            late == InsertsThenIndex(schema, all(records), "a", index_type)
        IN  (early.outcome = "ok" /\ late.outcome = "ok" /\ "a" \in DOMAIN late.indexes)
                => \A v \in Values :
                    IndexSearchOp(late.indexes["a"], v) = IndexSearchOp(early.indexes["a"], v)
IndexBuiltFromTwoRecords ==
    /\ lastOp = "create_index"
    /\ "a" \in DOMAIN indexes
    /\ indexes["a"].kind = "sorted"
    /\ Len(indexes["a"].sorted_list) = 2
    /\ indexes["a"] = InsertsThenIndex(schema, all(records), "a", "sorted").indexes["a"]
    /\ IndexThenInserts(schema, all(records), "a", "sorted").outcome = "ok"

\* C15: an insert of a record whose primary key is a key of the record map
\* raises DuplicateKeyError and leaves the record map and the indexes as
\* they were.
DuplicateInsertChangesNothing ==
    \A record \in InputRecords :
        (PrimaryKey \in DOMAIN record /\ record[PrimaryKey] \in Keys(records))
            => /\ insert(schema, records, indexes, record).outcome = "DuplicateKeyError"
               /\ insert(schema, records, indexes, record).records = records
               /\ insert(schema, records, indexes, record).indexes = indexes
DuplicateInsertRejected ==
    /\ lastOp = "insert"
    /\ outcome = "DuplicateKeyError"
    /\ "a" \in DOMAIN indexes
    /\ Len(records) = 2

\* C16: an insert of a record without the primary key stores it under key 1
\* in an empty table and under max(keys) + 1 otherwise: a key greater than
\* every key present, hence a new one.
AutoKeyIsNew ==
    \A record \in InputRecords :
        (/\ PrimaryKey \notin DOMAIN record
         /\ insert(schema, records, indexes, record).outcome \notin
                {"SchemaValidationError", "DuplicateKeyError"})
            => LET after == insert(schema, records, indexes, record).records
                   new == after[Len(after)]
               IN  /\ Len(after) = Len(records) + 1
                   /\ SubSeq(after, 1, Len(records)) = records
                   /\ new.rec[PrimaryKey] = new.key
                   /\ new.key.type = "int"
                   /\ records = <<>> => new.key.val = 1
                   /\ \A k \in Keys(records) : k.val < new.key.val
                   /\ records # <<>> => \E k \in Keys(records) : new.key.val = k.val + 1
\* An insert has just succeeded into a table whose only other key is 2, after
\* key 1 was deleted or never used.
InsertBesideKeyTwo ==
    /\ lastOp = "insert"
    /\ outcome = "ok"
    /\ Len(records) = 2
    /\ records[1].key = IntV(2)

\* C17: an insert that raises SchemaValidationError adds no record and
\* changes no index.
InvalidInsertChangesNothing ==
    [][(lastOp' = "insert" /\ outcome' = "SchemaValidationError")
            => (records' = records /\ indexes' = indexes)]_vars
InvalidInsertRejected ==
    /\ lastOp = "insert"
    /\ outcome = "SchemaValidationError"
    /\ "a" \in DOMAIN indexes
    /\ records # <<>>

\* The entries of the record map that satisfy where, and those that do not.
Matching(recs, where) == SelectSeq(recs, LAMBDA e : WhereHolds(where, e.rec))
NotMatching(recs, where) == SelectSeq(recs, LAMBDA e : ~WhereHolds(where, e.rec))
WhereEvaluates(recs, where) == \A i \in 1..Len(recs) : ~WhereRaises(where, recs[i].rec)

\* C18: an update or a delete whose condition no record satisfies raises
\* RecordNotFoundError and leaves the record map and the indexes unchanged.
NoMatchChangesNothing ==
    \A where \in Wheres :
        (WhereEvaluates(records, where) /\ Matching(records, where) = <<>>)
            => /\ delete(records, indexes, where).outcome = "RecordNotFoundError"
               /\ delete(records, indexes, where).records = records
               /\ delete(records, indexes, where).indexes = indexes
               /\ \A changes \in InputChanges :
                    /\ update(schema, records, indexes, changes, where).outcome
                            = "RecordNotFoundError"
                    /\ update(schema, records, indexes, changes, where).records = records
                    /\ update(schema, records, indexes, changes, where).indexes = indexes
NoMatchOnStoredRecords ==
    /\ lastOp \in {"update", "delete"}
    /\ outcome = "RecordNotFoundError"
    /\ records # <<>>
    /\ "a" \in DOMAIN indexes

\* C19: a delete that succeeds removes the records that satisfied the
\* condition when it was called (all records when there is no condition),
\* returns how many they were, and leaves the other records as they were.
DeleteRemovesMatching ==
    \A where \in Wheres :
        delete(records, indexes, where).outcome = "ok"
            => /\ delete(records, indexes, where).records = NotMatching(records, where)
               /\ delete(records, indexes, where).count = Len(Matching(records, where))
               /\ delete(records, indexes, where).count > 0
               /\ where = NoWhere => delete(records, indexes, where).records = <<>>
DeletedSomeKeptSome ==
    /\ lastOp = "delete"
    /\ outcome = "ok"
    /\ records # <<>>

\* C20: an update that succeeds returns the number of records that satisfied
\* the condition, gives each of them the values of changes in the fields
\* changes names and keeps their other fields, and leaves the other records
\* and the keys of the record map as they were.
UpdateSetsChangedFields ==
    \A where \in Wheres : \A changes \in InputChanges :
        LET r == update(schema, records, indexes, changes, where) IN
        r.outcome = "ok"
            => /\ r.count = Len(Matching(records, where))
               /\ Len(r.records) = Len(records)
               /\ \A i \in 1..Len(records) :
                    /\ r.records[i].key = records[i].key
                    /\ ~WhereHolds(where, records[i].rec) => r.records[i] = records[i]
                    /\ WhereHolds(where, records[i].rec) =>
                        /\ DOMAIN r.records[i].rec = (DOMAIN records[i].rec) \cup (DOMAIN changes)
                        /\ \A f \in DOMAIN changes : r.records[i].rec[f] = changes[f]
                        /\ \A f \in (DOMAIN records[i].rec) \ (DOMAIN changes) :
                                r.records[i].rec[f] = records[i].rec[f]
UpdatedSomeKeptSome ==
    /\ lastOp = "update"
    /\ outcome = "ok"
    /\ Len(records) = 2
    /\ "a" \in DOMAIN records[1].rec
    /\ "a" \in DOMAIN records[2].rec
    /\ records[1].rec["a"] = IntV(2)
    /\ records[2].rec["a"] = IntV(1)

\* C3: an update that raises a schema validation error leaves the record
\* map exactly as it was before the call.
UpdateFailureRestoresRecords ==
    [][(lastOp' = "update" /\ outcome' = "SchemaValidationError")
            => records' = records]_vars
UpdateFailedOnStoredRecords ==
    /\ lastOp = "update"
    /\ outcome = "SchemaValidationError"
    /\ Len(records) >= 2

\* C5: with a schema, every record that all() returns has exactly the
\* schema's fields, each holding a value of the declared type.
StoredRecordsFitSchema ==
    schema.defined =>
        \A i \in 1..Len(records) :
            /\ DOMAIN all(records)[i] = DOMAIN schema.types
            /\ \A f \in DOMAIN schema.types : all(records)[i][f].type = schema.types[f]
SchemaTableAfterFailedCall ==
    /\ schema.defined
    /\ Len(records) >= 2
    /\ outcome = "SchemaValidationError"

\* C6: while a thread holds the write lock, no other thread holds the read
\* lock or the write lock.
WriterIsAlone ==
    \A t \in Threads : pc[t] = "w_hold" =>
        \A u \in Threads \ {t} : pc[u] \notin {"r_hold", "w_hold"}
WriterHoldsWhileOthersWait ==
    \E t, u, w \in Threads :
        pc[t] = "w_hold" /\ pc[u] = "r_wait" /\ pc[w] = "w_wait"

\* C7: a reader that asks for the read lock while another reader holds it,
\* with no writer active or waiting, can take it at once.
ReadersShare ==
    \A t \in Threads :
        (/\ pc[t] = "r_wait"
         /\ \E u \in Threads : pc[u] = "r_hold"
         /\ \A w \in Threads : pc[w] \notin {"w_wait", "w_hold"})
            => ENABLED AcquireRead(t)
TwoReadersHold ==
    \E t, u \in Threads : t # u /\ pc[t] = "r_hold" /\ pc[u] = "r_hold"

\* C8: a reader that asked for the read lock while writers were waiting
\* holds it only after each of those writers has acquired and released the
\* write lock.
ReadersQueueBehindWriters ==
    \A t \in Threads : pc[t] = "r_hold" => ahead[t] = {}
QueuedReaderHolds ==
    \E t \in Threads : pc[t] = "r_hold" /\ queued[t]

\* C9: under fair scheduling a writer that waits for the write lock
\* eventually holds it.
WriterEventuallyAcquires ==
    \A t \in Threads : (pc[t] = "w_wait") ~> (pc[t] = "w_hold")
WriterWaitsBehindReaders ==
    \E t, u, w \in Threads :
        pc[t] = "w_wait" /\ pc[u] = "r_hold" /\ pc[w] = "r_wait"

\* C4: a select, all or copy never sees the changes of an update that has
\* not completed its loop or is about to be rolled back.
ReadsSeeNoPartialUpdate ==
    \A t \in Callers : observed[t] # "torn"
ReadBesideUpdate ==
    \E t, u \in Callers :
        /\ observed[t] = "clean"
        /\ In(u, {"update"}) /\ pc[u] = "wait"
        /\ Len(records) >= 2

\* C10: no thread asks for the table lock while it holds it, and whenever a
\* thread waits for the lock some call under way can take a step.
NoWaitWhileHolding ==
    \A t \in Callers : pc[t] = "wait" =>
        \A i \in 1..(Len(stack[t]) - 1) : LockMode(stack[t][i].name, schema) = "none"
SomeCallCanStep ==
    (\E t \in Callers : pc[t] = "wait") => \E u \in Callers : ENABLED Progress(u)
NoDeadlock == NoWaitWhileHolding /\ SomeCallCanStep
WaitBesideSizeCall ==
    \E t, u \in Callers :
        /\ pc[t] = "wait" /\ In(t, {"update"})
        /\ Len(stack[u]) = 2 /\ pc[u] = "body"

\* C23: an ordering comparison evaluates to false, and does not raise, on a
\* record whose field is missing or None, so a select with such a condition
\* completes.
OrderingConditionNeverRaises ==
    \A where \in Wheres :
        where.op = "lt" =>
            /\ \A i \in 1..Len(records) : ~WhereRaises(where, records[i].rec)
            /\ select(records, indexes, where).exc = "ok"
            /\ delete(records, indexes, where).outcome # "TypeError"

\* How two records stand under order_by: the first key on which they differ
\* decides, turned around for a key with a "-" prefix.
RECURSIVE KeyOrder(_, _, _)
KeyOrder(x, y, order_by) ==
    IF order_by = <<>> THEN "eq"
    ELSE LET c == ValCmp(Get(x, StripDash(Head(order_by))),
                         Get(y, StripDash(Head(order_by))))
         IN  IF c = "eq" THEN KeyOrder(x, y, Tail(order_by))
             ELSE IF ~StartsWithDash(Head(order_by)) THEN c
             ELSE IF c = "lt" THEN "gt"
             ELSE IF c = "gt" THEN "lt"
             ELSE c
ScanPos(list, x) == CHOOSE i \in 1..Len(list) : list[i] = x

\* C24: the ordering step of select returns the same records, any two of them
\* ordered by the first key on which they differ (descending for a "-" key),
\* records equal on all keys in scan order; a repeated call returns the same.
EarlierKeysDominate ==
    (query.fn = "order_records" /\ returned.exc = "ok") =>
        /\ Len(returned.rows) = Len(rows)
        /\ Range(returned.rows) = Range(rows)
        /\ \A p, q \in 1..Len(returned.rows) : p < q =>
                LET c == KeyOrder(returned.rows[p], returned.rows[q], query.order_by)
                IN  \/ c = "lt"
                    \/ /\ c = "eq"
                       /\ ScanPos(rows, returned.rows[p]) < ScanPos(rows, returned.rows[q])
        /\ order_records(rows, query.order_by) = returned
TieBrokenBySecondKey ==
    /\ query.fn = "order_records" /\ returned.exc = "ok"
    /\ Len(query.order_by) = 2 /\ StartsWithDash(query.order_by[2])
    /\ StripDash(query.order_by[1]) # StripDash(query.order_by[2])
    /\ Len(rows) = MaxRows
    /\ returned.rows # rows
    /\ \E p, q \in 1..Len(rows) :
            /\ p < q
            /\ KeyOrder(rows[p], rows[q], <<query.order_by[1]>>) = "eq"
            /\ KeyOrder(rows[p], rows[q], query.order_by) = "gt"
    /\ \E p, q \in 1..Len(rows) :
            KeyOrder(rows[p], rows[q], <<query.order_by[1]>>) = "gt"

\* C25: for one sort key, a limit and an offset, the slice [offset : offset +
\* limit] of what order_records_with_limit returns is the same list, in the
\* same order, as that slice of the full stable sort.
HeapPathEqualsFullSort ==
    (/\ query.fn = "order_records_with_limit"
     /\ Len(query.order_by) = 1
     /\ query.limit # None
     /\ sort_records(rows, query.order_by).exc = "ok") =>
        /\ returned.exc = "ok"
        /\ slice_records(returned.rows, query.limit, query.offset)
             = slice_records(sort_records(rows, query.order_by).rows,
                             query.limit, query.offset)
HeapPathOverEqualKeys ==
    /\ query.fn = "order_records_with_limit" /\ returned.exc = "ok"
    /\ Len(query.order_by) = 1 /\ StartsWithDash(query.order_by[1])
    /\ query.limit # None /\ query.offset >= 1
    /\ query.offset + query.limit.val = 2 /\ Len(rows) = 3
    /\ returned.rows # SubSeq(rows, 1, 2)
    /\ \E p, q \in 1..Len(returned.rows) :
            p # q /\ KeyOrder(returned.rows[p], returned.rows[q], query.order_by) = "eq"

\* C26: a select ordered by a field that some records lack while others
\* hold an int returns all the records, in some order, and does not raise.
OrderByToleratesMissingField ==
    \A order_by \in {<<"a">>, <<"-a">>} :
        (/\ \E i \in 1..Len(records) : "a" \notin DOMAIN records[i].rec
         /\ \E i \in 1..Len(records) : Get(records[i].rec, "a").type = "int") =>
            LET r == select_query(records, indexes, NoColumns, NoWhere, order_by, None, 0)
            IN  /\ r.exc = "ok"
                /\ Len(r.rows) = Len(records)
                /\ Range(r.rows) = Range(all(records))

\* The table's records are the dicts its references name.
RecordsAreTheView == records = View(objects, table)

\* C21: a write through a record that select, all or copy returned changes
\* neither the stored records nor the result of a later read.
ReadResultsAreCopies ==
    [][(lastOp' = "write" /\ touched' \in Range(got)) =>
            /\ View(objects', table') = View(objects, table)
            /\ all(records') = all(records)
            /\ \A columns \in OwnColumns, where \in OwnWheres, order_by \in OwnOrderBys,
                  limit \in OwnLimits :
                    select_query(records', indexes', columns, where, order_by, limit, 0)
                        = select_query(records, indexes, columns, where, order_by, limit, 0)
      ]_vars
WroteToReturnedRecord ==
    /\ lastOp = "write" /\ touched \in Range(got)
    /\ Len(got) = 2 /\ Len(table) = 2
    /\ \E i \in 1..Len(table) :
            /\ PrimaryKey \in DOMAIN objects[touched]
            /\ objects[touched][PrimaryKey] = table[i].key
            /\ objects[touched] # objects[table[i].ref]

\* C22: the stored records change only in insert, update and delete; a write
\* of the caller to the dict it passed to insert changes none of them.
StoredChangesOnlyThroughTable ==
    [][lastOp' \notin {"insert", "update", "delete"} =>
            View(objects', table') = View(objects, table)]_vars

\* C27: of two backups that notify_change started, the later one starts at
\* least min_backup_interval after the earlier one if that one succeeded.
NotifyBackupsApart ==
    \A i, j \in 1..Len(history) :
        (/\ i < j
         /\ history[i].via = "notify" /\ history[j].via = "notify"
         /\ history[i].ok) =>
            history[j].start - history[i].start >= MinInterval

\* The number of failed backup_now calls since the last one that succeeded.
RECURSIVE FailedSinceSuccess(_)
FailedSinceSuccess(h) ==
    IF h = <<>> \/ h[Len(h)].ok THEN 0
    ELSE 1 + FailedSinceSuccess(SubSeq(h, 1, Len(h) - 1))

\* C28: no backup_now call raises, consecutive_failures is the number of
\* failed calls since the last successful one, and each failed call passed
\* that number to on_backup_failure.
FailuresAreCounted ==
    /\ manager.consecutive_failures = FailedSinceSuccess(history)
    /\ \A i \in 1..Len(history) :
        /\ ~history[i].raised
        /\ ~history[i].ok =>
                history[i].reported = FailedSinceSuccess(SubSeq(history, 1, i))
FailedAfterSuccessAfterFailure ==
    /\ Len(history) = 3
    /\ ~history[1].ok /\ history[2].ok /\ ~history[3].ok
    /\ manager.consecutive_failures = 1

\* C29: a stop() that was called returns, and once it has returned the
\* periodic thread has ended and no backup is made by it any more.
StopReturns ==
    /\ At(MainThread, "joining") ~> At(MainThread, "stopped")
    /\ [](At(MainThread, "stopped") => At(PeriodicThread, "done"))
    /\ [][At(MainThread, "stopped") =>
            \A i \in 1..Len(history') :
                i > Len(history) => history'[i].via # "periodic"]_vars
StoppedDuringSave ==
    /\ At(MainThread, "stopped")
    /\ bthreads[MainThread].via = "saving"
    /\ Len(history) > bthreads[MainThread].start
    /\ history[Len(history)].via = "periodic"

\* C30: a table saved and loaded, once or twice, has the name, the primary
\* key, the schema and the records it had, and no index.
SameTable(t, u) ==
    /\ u.table_name = t.table_name
    /\ u.primary_key = t.primary_key
    /\ u.schema = t.schema
    /\ all(u.records) = all(t.records)
SaveLoadRoundTrip ==
    \A file_format \in FileFormats :
        LET t == TableState(schema, records, indexes)
            once == SaveThenLoad(t, file_format)
            twice == SaveThenLoad(once.table, file_format)
        IN  /\ once.exc = "ok"
            /\ SameTable(t, once.table)
            /\ once.table.indexes = NoIndexes
            /\ twice.exc = "ok"
            /\ SameTable(t, twice.table)
            /\ twice.table.indexes = NoIndexes

\* C31 as stated: every access to an index structure, reads as well as
\* writes, happens while the accessing thread holds the table's writer lock.
IndexAccessUnderWriterLock ==
    \A t \in Callers : IndexAccess(t) # "none" => HoldsWrite(t)
\* C31: every write to an index structure happens while the accessing
\* thread holds the table's writer lock, and every read of one (a search, a
\* look at the index map) while it holds the reader lock and no writer is
\* inside.
IndexAccessUnderTableLock ==
    \A t \in Callers :
        /\ IndexAccess(t) = "write" => HoldsWrite(t)
        /\ IndexAccess(t) = "read" => HoldsRead(t)
IndexSearchBesideWaitingWriter ==
    \E t, u \in Callers :
        /\ IndexAccess(t) = "read" /\ In(t, {"select"})
        /\ is_indexed_eq_condition(indexes, Top(stack[t]).where)
        /\ In(u, {"update"}) /\ pc[u] = "wait"

\* The entries of an index as pairs <<value, primary key>>.
IndexEntries(idx) ==
    IF idx.kind = "hash"
    THEN {e \in (DOMAIN idx.index) \X KeyValues : e[2] \in idx.index[e[1]]}
    ELSE {idx.sorted_list[i] : i \in 1..Len(idx.sorted_list)}
\* The entries one of the two indexes has and the other has not.
EntriesChanged(before, after) ==
    (IndexEntries(before) \ IndexEntries(after))
        \cup (IndexEntries(after) \ IndexEntries(before))

\* C32: an update whose loop raises (a validation error, no matching
\* record, an error from where) leaves every index as it was, and an update
\* that succeeds changes the entries of an index on f only for the records
\* whose value of f differs between the pre-image and the new record.
UpdateIndexesOnlyAfterLoop ==
    \A changes \in InputChanges, where \in Wheres :
        \A loop \in {UpdateLoop(schema, records, 1, changes, where, UpdateStart)} :
        \A r \in {update(schema, records, indexes, changes, where)} :
            /\ loop.exc # "ok" => r.indexes = indexes /\ r.outcome = loop.exc
            /\ r.outcome = "ok" =>
                \A f \in DOMAIN indexes :
                    \A e \in EntriesChanged(indexes[f], r.indexes[f]) :
                        /\ e[2] \in Keys(records)
                        /\ WhereHolds(where, RecAt(records, e[2]))
                        /\ Get(RecAt(records, e[2]), f) # Get(RecAt(r.records, e[2]), f)
UpdateFailedBesideIndex ==
    /\ lastOp = "update"
    /\ outcome \in {"SchemaValidationError", "RecordNotFoundError"}
    /\ "a" \in DOMAIN indexes
    /\ IndexEntries(indexes["a"]) # {}
    /\ Len(records) >= 2

\* The entries of the sorted list whose value stands in relation op to x.
EntriesInRange(op, a, x) == {i \in 1..Len(a) : Compare(op, a[i][1], x) = "true"}

\* C33: on an index over values that the order compares, search_lt,
\* search_lte, search_gt and search_gte return exactly the primary keys of
\* the entries whose value v has v < x, v <= x, v > x, v >= x, for every x.
RangeSearchesAreExact ==
    \A op \in RangeOps, x \in QueryValues :
        LET a == indexes["sorted"].sorted_list IN
        (x.type = "int" /\ \A i \in 1..Len(a) : a[i][1].type = "int") =>
            /\ RangeSearch(op, indexes["sorted"], x).exc = "ok"
            /\ RangeSearch(op, indexes["sorted"], x).pks
                    = {a[i][2] : i \in EntriesInRange(op, a, x)}
SharedValueBetweenOthers ==
    LET a == indexes["sorted"].sorted_list IN
    /\ Len(a) = MaxIndexed
    /\ \A i \in 1..Len(a) : a[i][1].type = "int"
    /\ \E i, j \in 1..Len(a) : a[i][1] = a[j][1] /\ a[i][2] # a[j][2]
    /\ \E i, j \in 1..Len(a) : a[i][1] # a[j][1]

\* v can be compared with the bound: both ints, or both strs.
Comparable(v, bound) == v.type # "NoneType" /\ v.type = bound.type

\* C34: between(low, high) is true exactly for the records whose field
\* value v is not None and has low <= v <= high, and is false, without an
\* error, when the field is missing or None or v cannot be compared with
\* the bounds.
BetweenIsInclusiveAndTotal ==
    \A i \in 1..Len(records), f \in FieldNames, low \in BoundValues, high \in BoundValues :
        LET v == Get(records[i].rec, f)
            c == BetweenCondition(f, low, high, records[i].rec)
        IN  /\ c.exc = "ok"
            /\ c.result <=> (/\ v # None
                             /\ Comparable(v, low) /\ Comparable(v, high)
                             /\ low.val <= v.val /\ v.val <= high.val)
BetweenOverMissingAndValue ==
    /\ Len(records) >= 2
    /\ \E i \in 1..Len(records) : "a" \notin DOMAIN records[i].rec
    /\ \E i \in 1..Len(records) :
            BetweenCondition("a", IntV(1), IntV(2), records[i].rec).result

\* The conditions on one field that the combinators are given.
Operands == Wheres \ {NoWhere}

\* C35: (a & b) evaluates b only if a is true and (a | b) only if a is
\* false, so a right operand that would raise is not evaluated when the
\* left one decides; otherwise &, | and ~ give the AND, OR and NOT of the
\* operands' results.
CombinatorsShortCircuit ==
    \A i \in 1..Len(records), a \in Operands, b \in Operands :
        LET x == PredicateCall(a, records[i].rec)
            y == PredicateCall(b, records[i].rec)
        IN  x.exc = "ok" =>
            /\ PredicateInvert(x) = Evaluation(~x.val, "ok", <<a>>)
            /\ ~x.val => PredicateAnd(x, y) = Evaluation(FALSE, "ok", <<a>>)
            /\ x.val => PredicateOr(x, y) = Evaluation(TRUE, "ok", <<a>>)
            /\ x.val => PredicateAnd(x, y).evaluated = <<a, b>>
            /\ ~x.val => PredicateOr(x, y).evaluated = <<a, b>>
            /\ y.exc = "ok" =>
                /\ PredicateAnd(x, y).exc = "ok"
                /\ PredicateOr(x, y).exc = "ok"
                /\ PredicateAnd(x, y).val = (x.val /\ y.val)
                /\ PredicateOr(x, y).val = (x.val \/ y.val)
                /\ PredicateInvert(PredicateAnd(x, y)).val
                        = PredicateOr(PredicateInvert(x), PredicateInvert(y)).val
LeftDecidesRightWouldRaise ==
    \E i \in 1..Len(records), a \in Operands, b \in Operands :
        /\ PredicateCall(a, records[i].rec).exc = "ok"
        /\ PredicateCall(a, records[i].rec).val
        /\ PredicateCall(b, records[i].rec).exc = "TypeError"
        /\ PredicateOr(PredicateCall(a, records[i].rec),
                       PredicateCall(b, records[i].rec)).exc = "ok"
        /\ Len(records) >= 2

\* C36: every key k of the record map maps to a record whose primary-key
\* field equals k.
KeysMatchPrimaryKeyField ==
    \A i \in 1..Len(records) :
        /\ PrimaryKey \in DOMAIN records[i].rec
        /\ records[i].rec[PrimaryKey] = records[i].key

\* The store step of an insert that was given no primary key, by caller t.
AutoInsertStores(t) == pc[t] = "store" /\ pc'[t] = "idle"

\* C37: every insert of a record without a primary key, made beside other
\* such inserts, adds its record under a key no stored record has and
\* leaves the records stored before in place, so the keys stay pairwise
\* distinct and no insert is lost or overwritten.
ConcurrentAutoInsertsAllStored ==
    [][\A t \in Callers : AutoInsertStores(t) =>
            /\ Len(records') = Len(records) + 1
            /\ SubSeq(records', 1, Len(records)) = records
            /\ records'[Len(records')].key \notin Keys(records)
            /\ records'[Len(records')].key = Top(stack[t]).arg[PrimaryKey]
            /\ records'[Len(records')].rec = Top(stack[t]).arg]_vars
AutoInsertWaitsBesideStore ==
    \E t, u \in Callers :
        /\ t # u
        /\ pc[t] = "store"
        /\ In(u, {"insert"}) /\ pc[u] = "wait" /\ PrimaryKey \notin DOMAIN Top(stack[u]).arg
        /\ Top(stack[t]).arg[PrimaryKey] = IntV(1)

\* The callers inside a read_lock() block, inside a write_lock() block, and
\* waiting to enter one.
ReadHolders ==
    {t \in Callers : pc[t] # "idle" /\ pc[t] # "wait"
                        /\ LockMode(Top(stack[t]).name, schema) = "read"}
WriteHolders ==
    {t \in Callers : pc[t] # "idle" /\ pc[t] # "wait"
                        /\ LockMode(Top(stack[t]).name, schema) = "write"}
WriteWaiters ==
    {t \in Callers : pc[t] = "wait" /\ LockMode(Top(stack[t]).name, schema) = "write"}
\* The lock is held by exactly the callers that are inside its blocks.
LockHeldByCallersInside ==
    /\ lock.readers = Cardinality(ReadHolders)
    /\ lock.writer = (WriteHolders # {})
    /\ lock.writers_waiting = Cardinality(WriteWaiters)

\* A caller that waits while no other call is under way can take the lock,
\* and a caller inside an operation can take its next step.
LockFreeWhenOthersIdle ==
    \A t \in Callers :
        /\ (pc[t] = "wait" /\ \A u \in Callers \ {t} : pc[u] = "idle")
                => ENABLED Acquire(t)
        /\ (pc[t] # "idle" /\ pc[t] # "wait") => ENABLED Progress(t)

\* C38: a Table operation releases the lock on every exit path, by return
\* or by exception: the lock is held only by callers inside an operation, a
\* caller that waits once the other calls have ended, failed or not, can
\* take it, and under fair scheduling every caller that waits for the
\* writer lock acquires it and completes its call.  (A reader waits behind
\* writers for as long as writers keep arriving.)
LockReleasedOnEveryExit ==
    /\ [](LockHeldByCallersInside /\ LockFreeWhenOthersIdle)
    /\ \A t \in Callers : (t \in WriteWaiters) ~> (pc[t] = "idle")
WaitsBesideRaisingCall ==
    \E t, u \in Callers :
        /\ Raises(t) /\ In(t, {"insert", "delete", "select"})
        /\ pc[u] = "wait"

\* C39: after every step the call had the same outcome in the table with
\* the hash index and in the table with the sorted index, and
\* indexes[f].search(v) gives the same primary keys in both for every v.
HashAndSortedTablesAgree ==
    /\ outcome = twin.outcome
    /\ \A v \in DataValues :
            IndexSearchOp(twin.indexes[TwinField], v)
                = IndexSearchOp(indexes[TwinField], v)

\* C40: no value of the hash index maps to an empty set of primary keys; a
\* value that loses its last primary key leaves the mapping.
HashIndexHasNoEmptySet ==
    \A v \in DOMAIN indexes["hash"].index : indexes["hash"].index[v] # {}
\* The sorted index, given the same calls, is empty while the hash index
\* holds an int: the inserts of ints that the sorted index refused met a
\* None there, so the hash index held None too, and lost it to a delete.
NoneRemovedWithItsLastKey ==
    /\ lastOp = "delete"
    /\ indexes["sorted"].sorted_list = <<>>
    /\ DOMAIN indexes["hash"].index # {}
    /\ None \notin DOMAIN indexes["hash"].index
====
